---- MODULE Spec2Model ----
(***************************************************************************)
(* A model of the logm logging pipeline:                                   *)
(*   - writer.AsyncWriter (pkg/logm/writer/async.go): a bounded channel,   *)
(*     one background run goroutine, Write / Sync / Close callers;         *)
(*   - logm.Handler (pkg/logm/handler.go): level gate, interceptor chain,  *)
(*     formatter, writer fan-out, WithAttrs / WithGroup snapshots.         *)
(* Each part has its own specification (Spec for the AsyncWriter,          *)
(* SpecHandler for the Handler); the variables of the other part stay at   *)
(* their initial values.                                                   *)
(***************************************************************************)
EXTENDS Integers, Sequences, FiniteSets, TLC

\* ------------------------------------------------------------------ bounds

\* Capacity of the AsyncWriter's channel (the bufferSize given to Async).
QueueCap == 2

\* Total number of Write / Sync / Close calls the caller goroutines make.
MaxCalls == 4

\* The caller goroutines of the AsyncWriter.
Procs == {1, 2}

\* ------------------------------------------------------------- AsyncWriter

VARIABLES
    ch,          \* a.ch: the buffered items, oldest first
    chClosed,    \* close(a.ch) has happened
    closed,      \* a.closed
    wg,          \* a.wg: the WaitGroup counter
    runPc,       \* position of the run goroutine: "recv", "write", "done"
    runData,     \* the item run holds between its receive and its Write
    drainPc,     \* per caller: position of the goroutine its Sync started
    drainData,   \* per caller: the item that goroutine holds
    pc,          \* per caller: position inside the current call
    op,          \* per caller: the call it is in, or made last
    ret,         \* per caller: what its last returned call returned
    wdata,       \* per caller: the copy Write made of its buffer
    wseq,        \* per caller: how many buffers it has written so far
    inner,       \* the calls the inner writer has received, in order
    panicked,    \* "none", or the call whose goroutine panicked
    calls,       \* per caller: number of calls it has started
    \* history variables, read only by the properties
    accepted,    \* buffers of the Writes that reached the select
    dropped,     \* those of them that took the default branch
    closer,      \* the caller whose Close made the Open -> Closing step (0: none)
    closeDone,   \* that Close call has returned
    closeReturned, \* some Close call has returned
    overlap,     \* a Write or Sync call overlapped the closing Close call
    syncPre,     \* per caller: the buffers enqueued when its Sync call started
    closeRets    \* <<did the transition, returned value>> of the returned Closes

avars == <<ch, chClosed, closed, wg, runPc, runData, drainPc, drainData, pc, op,
           ret, wdata, wseq, inner, panicked, calls, accepted, dropped, closer,
           closeDone, closeReturned, overlap, syncPre, closeRets>>

\* The sentinel Sync sends: a nil []byte.
NilItem == [nil |-> TRUE, bytes |-> <<>>]

\* The copy Write makes of the k-th buffer of caller p (two bytes long).
DataItem(p, k) == [nil |-> FALSE, bytes |-> <<p, k>>]

Range(s) == {s[i] : i \in 1..Len(s)}

\* The items the inner writer's Write has received, in order.
InnerWrites == SelectSeq(inner, LAMBDA e : e.call = "Write")

InnerCount(c) == Len(SelectSeq(inner, LAMBDA e : e.call = c))

\* The values the inner writer's Close and Sync may return.
InnerErrs == {"nil", "err"}

\* Async(w, bufferSize): an open writer with an empty channel and run started.
AsyncInit ==
    /\ ch = <<>>
    /\ chClosed = FALSE
    /\ closed = FALSE
    /\ wg = 1
    /\ runPc = "recv"
    /\ runData = NilItem
    /\ drainPc = [p \in Procs |-> "none"]
    /\ drainData = [p \in Procs |-> NilItem]
    /\ pc = [p \in Procs |-> "idle"]
    /\ op = [p \in Procs |-> "none"]
    /\ ret = [p \in Procs |-> <<0, "nil">>]
    /\ wdata = [p \in Procs |-> NilItem]
    /\ wseq = [p \in Procs |-> 0]
    /\ inner = <<>>
    /\ panicked = "none"
    /\ calls = [p \in Procs |-> 0]
    /\ accepted = {}
    /\ dropped = {}
    /\ closer = 0
    /\ closeDone = FALSE
    /\ closeReturned = FALSE
    /\ overlap = FALSE
    /\ syncPre = [p \in Procs |-> {}]
    /\ closeRets = {}

\* A goroutine can take a step: the process has not died of a panic.
Alive == panicked = "none"

RECURSIVE SumOver(_, _)
SumOver(f, S) ==
    IF S = {} THEN 0
    ELSE LET x == CHOOSE y \in S : TRUE IN f[x] + SumOver(f, S \ {x})

\* A caller starts a new call.
CanCall(p) == Alive /\ pc[p] = "idle" /\ SumOver(calls, Procs) < MaxCalls

\* run: `for data := range a.ch` receives the oldest item, or ends the loop
\* (and runs the deferred wg.Done) once the channel is closed and empty.
RunRecv ==
    /\ Alive
    /\ runPc = "recv"
    /\ \/ /\ ch # <<>>
          /\ runData' = Head(ch)
          /\ ch' = Tail(ch)
          /\ runPc' = "write"
          /\ wg' = wg
       \/ /\ ch = <<>>
          /\ chClosed
          /\ runPc' = "done"
          /\ wg' = wg - 1
          /\ UNCHANGED <<ch, runData>>
    /\ UNCHANGED <<chClosed, closed, drainPc, drainData, pc, op, ret, wdata, wseq,
                   inner, panicked, calls, accepted, dropped, closer, closeDone,
                   closeReturned, overlap, syncPre, closeRets>>

\* run: `_, _ = a.writer.Write(data)`.
RunWrite ==
    /\ Alive
    /\ runPc = "write"
    /\ inner' = Append(inner, [call |-> "Write", data |-> runData])
    /\ runPc' = "recv"
    /\ UNCHANGED <<ch, chClosed, closed, wg, runData, drainPc, drainData, pc, op,
                   ret, wdata, wseq, panicked, calls, accepted, dropped, closer,
                   closeDone, closeReturned, overlap, syncPre, closeRets>>

\* Write never takes the closed check of line 51 to succeed.
WriteSeesClosedNever == FALSE

\* Write, line 51: `if a.closed`, read under a.mu.
WriteSeesClosed == closed

\* Write, lines 50-55: under a.mu, return (0, nil) when a.closed; otherwise
\* copy the buffer (lines 58-59) and go on to the select.
WriteCheck(p) ==
    /\ CanCall(p)
    /\ op' = [op EXCEPT ![p] = "Write"]
    /\ calls' = [calls EXCEPT ![p] = @ + 1]
    /\ IF WriteSeesClosed
       THEN /\ ret' = [ret EXCEPT ![p] = <<0, "nil">>]
            /\ UNCHANGED <<pc, wdata, wseq>>
       ELSE /\ pc' = [pc EXCEPT ![p] = "w_send"]
            /\ wdata' = [wdata EXCEPT ![p] = DataItem(p, wseq[p] + 1)]
            /\ wseq' = [wseq EXCEPT ![p] = @ + 1]
            /\ ret' = ret
    /\ UNCHANGED <<ch, chClosed, closed, wg, runPc, runData, drainPc, drainData,
                   inner, panicked, accepted, dropped, closer, closeDone,
                   closeReturned, overlap, syncPre, closeRets>>

\* A select without its default branch.
SelectNoDefault == FALSE

\* Write, lines 64-66: the select has a default branch, so it never blocks.
SelectHasDefault == TRUE

\* Write, lines 61-67: the select. A send on a closed channel panics; with room
\* the copy is enqueued; on a full channel the default branch drops it. Both
\* branches return (len(p), nil).
WriteSend(p) ==
    /\ Alive
    /\ pc[p] = "w_send"
    /\ IF chClosed
       THEN /\ panicked' = "Write"
            /\ UNCHANGED <<ch, pc, ret, accepted, dropped>>
       ELSE /\ (Len(ch) < QueueCap \/ SelectHasDefault)
            /\ IF Len(ch) < QueueCap
               THEN /\ ch' = Append(ch, wdata[p])
                    /\ dropped' = dropped
               ELSE /\ ch' = ch
                    /\ dropped' = dropped \cup {wdata[p]}
            /\ accepted' = accepted \cup {wdata[p]}
            /\ ret' = [ret EXCEPT ![p] = <<Len(wdata[p].bytes), "nil">>]
            /\ pc' = [pc EXCEPT ![p] = "idle"]
            /\ panicked' = panicked
    /\ UNCHANGED <<chClosed, closed, wg, runPc, runData, drainPc, drainData, op,
                   wdata, wseq, inner, calls, closer, closeDone, closeReturned,
                   overlap, syncPre, closeRets>>

\* Close never takes the closed check of line 75 to succeed.
CloseSeesClosedNever == FALSE

\* Close, line 75: `if a.closed`, read under a.mu.
CloseSeesClosed == closed

\* Close, lines 74-80: under a.mu, return nil when a.closed, else set it.
CloseLock(p) ==
    /\ CanCall(p)
    /\ op' = [op EXCEPT ![p] = "Close"]
    /\ calls' = [calls EXCEPT ![p] = @ + 1]
    /\ IF CloseSeesClosed
       THEN /\ ret' = [ret EXCEPT ![p] = <<0, "nil">>]
            /\ closeRets' = closeRets \cup {<<FALSE, "nil">>}
            /\ closeReturned' = TRUE
            /\ UNCHANGED <<closed, pc, closer, overlap>>
       ELSE /\ closed' = TRUE
            /\ pc' = [pc EXCEPT ![p] = "c_chan"]
            /\ closer' = p
            /\ overlap' = (overlap \/ \E q \in Procs \ {p} : pc[q] # "idle")
            /\ UNCHANGED <<ret, closeRets, closeReturned>>
    /\ UNCHANGED <<ch, chClosed, wg, runPc, runData, drainPc, drainData, wdata,
                   wseq, inner, panicked, accepted, dropped, closeDone, syncPre>>

\* Close, line 82: close(a.ch); closing a closed channel panics.
CloseChan(p) ==
    /\ Alive
    /\ pc[p] = "c_chan"
    /\ IF chClosed
       THEN panicked' = "Close" /\ UNCHANGED <<chClosed, pc>>
       ELSE /\ chClosed' = TRUE
            /\ pc' = [pc EXCEPT ![p] = "c_wait"]
            /\ panicked' = panicked
    /\ UNCHANGED <<ch, closed, wg, runPc, runData, drainPc, drainData, op, ret,
                   wdata, wseq, inner, calls, accepted, dropped, closer,
                   closeDone, closeReturned, overlap, syncPre, closeRets>>

\* A Close that does not wait for run.
WgDoneNoWait == TRUE

\* Close, line 83: a.wg.Wait() returns once run has called wg.Done.
WgDone == wg = 0

\* Close, lines 83-84: a.wg.Wait(), then return a.writer.Close().
CloseWait(p) ==
    /\ Alive
    /\ pc[p] = "c_wait"
    /\ WgDone
    /\ \E e \in InnerErrs :
          /\ inner' = Append(inner, [call |-> "Close", data |-> NilItem])
          /\ ret' = [ret EXCEPT ![p] = <<0, e>>]
          /\ closeRets' = closeRets \cup {<<TRUE, e>>}
    /\ pc' = [pc EXCEPT ![p] = "idle"]
    /\ closeDone' = TRUE
    /\ closeReturned' = TRUE
    /\ UNCHANGED <<ch, chClosed, closed, wg, runPc, runData, drainPc, drainData,
                   op, wdata, wseq, panicked, calls, accepted, dropped, closer,
                   overlap, syncPre>>

\* Sync is called (line 92: done := make(chan struct{})).
SyncCall(p) ==
    /\ CanCall(p)
    /\ op' = [op EXCEPT ![p] = "Sync"]
    /\ calls' = [calls EXCEPT ![p] = @ + 1]
    /\ pc' = [pc EXCEPT ![p] = "s_send"]
    /\ syncPre' = [syncPre EXCEPT ![p] = accepted \ dropped]
    /\ overlap' = (overlap \/ (closer # 0 /\ ~closeDone))
    /\ UNCHANGED <<ch, chClosed, closed, wg, runPc, runData, drainPc, drainData,
                   ret, wdata, wseq, inner, panicked, accepted, dropped, closer,
                   closeDone, closeReturned, closeRets>>

\* Sync, lines 93-95: `a.ch <- nil` blocks while the channel is full and panics
\* on a closed channel; then the draining goroutine is started.
SyncSend(p) ==
    /\ Alive
    /\ pc[p] = "s_send"
    /\ IF chClosed
       THEN panicked' = "Sync" /\ UNCHANGED <<ch, pc, drainPc>>
       ELSE /\ Len(ch) < QueueCap
            /\ ch' = Append(ch, NilItem)
            /\ pc' = [pc EXCEPT ![p] = "s_wait"]
            /\ drainPc' = [drainPc EXCEPT ![p] = "recv"]
            /\ panicked' = panicked
    /\ UNCHANGED <<chClosed, closed, wg, runPc, runData, drainData, op, ret,
                   wdata, wseq, inner, calls, accepted, dropped, closer,
                   closeDone, closeReturned, overlap, syncPre, closeRets>>

\* Sync's goroutine, lines 96-100: receive the oldest item; on nil close(done)
\* and return; the loop also ends when the channel is closed and empty.
DrainRecv(p) ==
    /\ Alive
    /\ drainPc[p] = "recv"
    /\ \/ /\ ch # <<>>
          /\ ch' = Tail(ch)
          /\ IF Head(ch).nil
             THEN /\ drainPc' = [drainPc EXCEPT ![p] = "done"]
                  /\ drainData' = drainData
             ELSE /\ drainPc' = [drainPc EXCEPT ![p] = "write"]
                  /\ drainData' = [drainData EXCEPT ![p] = Head(ch)]
       \/ /\ ch = <<>>
          /\ chClosed
          /\ drainPc' = [drainPc EXCEPT ![p] = "exit"]
          /\ UNCHANGED <<ch, drainData>>
    /\ UNCHANGED <<chClosed, closed, wg, runPc, runData, pc, op, ret, wdata, wseq,
                   inner, panicked, calls, accepted, dropped, closer, closeDone,
                   closeReturned, overlap, syncPre, closeRets>>

\* Sync's goroutine, line 101: `_, _ = a.writer.Write(data)`.
DrainWrite(p) ==
    /\ Alive
    /\ drainPc[p] = "write"
    /\ inner' = Append(inner, [call |-> "Write", data |-> drainData[p]])
    /\ drainPc' = [drainPc EXCEPT ![p] = "recv"]
    /\ UNCHANGED <<ch, chClosed, closed, wg, runPc, runData, drainData, pc, op,
                   ret, wdata, wseq, panicked, calls, accepted, dropped, closer,
                   closeDone, closeReturned, overlap, syncPre, closeRets>>

\* Sync, lines 105-106: `<-done`, then return a.writer.Sync().
SyncWait(p) ==
    /\ Alive
    /\ pc[p] = "s_wait"
    /\ drainPc[p] = "done"
    /\ \E e \in InnerErrs :
          /\ inner' = Append(inner, [call |-> "Sync", data |-> NilItem])
          /\ ret' = [ret EXCEPT ![p] = <<0, e>>]
    /\ pc' = [pc EXCEPT ![p] = "idle"]
    /\ drainPc' = [drainPc EXCEPT ![p] = "none"]
    /\ UNCHANGED <<ch, chClosed, closed, wg, runPc, runData, drainData, op, wdata,
                   wseq, panicked, calls, accepted, dropped, closer, closeDone,
                   closeReturned, overlap, syncPre, closeRets>>

\* ----------------------------------------------------------------- Handler

\* slog.LevelDebug, LevelInfo, LevelWarn, LevelError.
LevelDebug == -4
LevelInfo == 0
LevelWarn == 4
LevelError == 8

Levels == {LevelDebug, LevelInfo, LevelWarn, LevelError}

\* Total number of log calls (direct Handle calls and calls through a Logger).
MaxHandles == 2

\* Number of Handler snapshots: the root and those WithAttrs/WithGroup derive.
MaxSnapshots == 4

\* Number of SetLevel calls.
MaxSetLevels == 2

\* The goroutines that log.
HProcs == {1, 2}

VARIABLES
    levelCells,  \* the slog.LevelVar objects: levelCells[i] is the level of the i-th
    handlers,    \* the Handler snapshots: [levelVar, groups, attrs]
    hcfg,        \* what every snapshot shares: [formatter, writers, interceptors]
    hmu,         \* per snapshot: the goroutine holding its mu (0: unlocked)
    wcalls,      \* the Write calls the Writers have received, in order
    hpc,         \* per goroutine: position inside Handle
    hh,          \* per goroutine: the snapshot its call is on
    hrec,        \* per goroutine: rec
    hrec0,       \* per goroutine: what toRecord returned
    hidx,        \* per goroutine: index of the range loop it is in
    hdata,       \* per goroutine: data
    hout,        \* per goroutine: what Handle returned ("nil", "err"); "gated"
                 \* when the Logger did not call it; "none" before it returns
    htrace,      \* per goroutine: Interceptor, Formatter and Writer calls of its call
    hcalls,      \* per goroutine: number of log calls it has made
    derived,     \* the snapshot the last WithAttrs / WithGroup returned
    hderiv,      \* per snapshot: the call that made it, [parent, op, arg]
    nset,        \* number of SetLevel calls made
    lastSet      \* <<the level of the last SetLevel call>> (<<>> before the first)

hvars == <<levelCells, handlers, hcfg, hmu, wcalls, hpc, hh, hrec, hrec0, hidx,
           hdata, hout, htrace, hcalls, derived,
                   hderiv, nset, lastSet>>

\* The "no value" an Interceptor returns to drop the record.
NilRecord == [nil |-> TRUE, level |-> LevelInfo, msg |-> "", attrs |-> <<>>,
              groups |-> <<>>]

\* The Interceptors a configuration is built from: one that appends an
\* attribute, one that drops the records whose message is "secret".
InterceptorKinds == {"tag", "dropSecret"}

\* interceptor(ctx, rec).
ApplyInterceptor(kind, rec) ==
    IF kind = "tag"
    THEN [rec EXCEPT !.attrs = Append(@, "trace_id")]
    ELSE IF rec.msg = "secret" THEN NilRecord ELSE rec

\* h.formatter.Format(rec): a formatter that renders the record, or one that
\* fails.
Format(kind, rec) ==
    IF kind = "fail"
    THEN [data |-> <<>>, err |-> "err"]
    ELSE [data |-> <<rec.level, rec.msg, rec.groups, rec.attrs>>, err |-> "nil"]

InterceptorLists == {<<>>, <<"tag", "dropSecret">>, <<"dropSecret", "tag">>}

\* The Writers: each accepts the bytes ("ok"), fails every call with an error of
\* its own ("err", "err2"), or is a MultiWriter over MultiInner ("multi").
WriterLists == {<<"err", "multi", "ok">>}

\* The inner writers of the MultiWriter.
MultiInner == <<"err2", "ok", "err">>

\* MultiWriter.Write: the range over m.writers, every result discarded, then
\* return len(p), nil. calls are the Write calls the inner writers received.
MultiWrite(ws, p) ==
    [calls |-> [i \in 1..Len(ws) |-> [w |-> i, data |-> p]],
     n |-> Len(p), err |-> "nil"]

\* w.Write(data) for a Writer of the given kind.
WriterWrite(kind, data) ==
    IF kind \in {"err", "err2"} THEN [calls |-> <<>>, n |-> 0, err |-> kind]
    ELSE IF kind = "multi" THEN MultiWrite(MultiInner, data)
    ELSE [calls |-> <<>>, n |-> Len(data), err |-> "nil"]

FormatterKinds == {"none", "ok", "fail"}

\* The arguments given to WithAttrs and WithGroup, and the records logged.
AttrArgs == {<<>>, <<"a">>, <<"b">>, <<"a", "b">>}
GroupArgs == {"", "g"}
Messages == {"m", "secret"}

\* NewHandler(cfg): the LevelVar of cfg or, when it has none, a new one set to
\* LevelInfo.
NewHandler(cfg) ==
    /\ levelCells = <<IF cfg.levelVar = <<>> THEN LevelInfo ELSE cfg.levelVar[1]>>
    /\ handlers = <<[levelVar |-> 1, groups |-> <<>>, attrs |-> <<>>]>>
    /\ hcfg = [formatter |-> cfg.formatter, writers |-> cfg.writers,
               interceptors |-> cfg.interceptors]
    /\ hmu = <<0>>

HandlerIdle ==
    /\ wcalls = <<>>
    /\ hpc = [g \in HProcs |-> "idle"]
    /\ hh = [g \in HProcs |-> 1]
    /\ hrec = [g \in HProcs |-> NilRecord]
    /\ hrec0 = [g \in HProcs |-> NilRecord]
    /\ hidx = [g \in HProcs |-> 1]
    /\ hdata = [g \in HProcs |-> <<>>]
    /\ hout = [g \in HProcs |-> "none"]
    /\ htrace = [g \in HProcs |-> <<>>]
    /\ hcalls = [g \in HProcs |-> 0]
    /\ derived = 1
    /\ hderiv = <<[parent |-> 0, op |-> "NewHandler", arg |-> <<>>]>>
    /\ nset = 0
    /\ lastSet = <<>>

\* A Handler built from any of the configurations.
HandlerInit ==
    /\ \E f \in FormatterKinds, ws \in WriterLists, is \in InterceptorLists,
          lv \in {<<>>} \cup {<<l>> : l \in Levels} :
          NewHandler([levelVar |-> lv, formatter |-> f, writers |-> ws,
                      interceptors |-> is])
    /\ HandlerIdle

\* The Handler the AsyncWriter's specification leaves alone.
HandlerFixed ==
    /\ NewHandler([levelVar |-> <<>>, formatter |-> "none", writers |-> <<>>,
                   interceptors |-> <<>>])
    /\ HandlerIdle

\* h.levelVar.Level().
Level(h) == levelCells[handlers[h].levelVar]

\* An Enabled that lets every level through.
EnabledAlways(h, level) == TRUE

\* Enabled: level >= h.levelVar.Level().
Enabled(h, level) == level >= Level(h)

\* toRecord: the record's level and message, the snapshot's groups, and the
\* snapshot's attrs followed by the record's. (Time and Source are left out.)
toRecord(h, r) ==
    [nil |-> FALSE, level |-> r.level, msg |-> r.msg,
     groups |-> handlers[h].groups, attrs |-> handlers[h].attrs \o r.attrs]

\* The slog.Records logged.
SlogRecords == [level : Levels, msg : Messages, attrs : {<<"k">>}]

CanLog(g) == hpc[g] = "idle" /\ SumOver(hcalls, HProcs) < MaxHandles

\* Handle, line 78: rec := h.toRecord(r), then the range over h.interceptors.
StartHandle(g, h, r) ==
    /\ hpc' = [hpc EXCEPT ![g] = "intercept"]
    /\ hh' = [hh EXCEPT ![g] = h]
    /\ hrec' = [hrec EXCEPT ![g] = toRecord(h, r)]
    /\ hrec0' = [hrec0 EXCEPT ![g] = toRecord(h, r)]
    /\ hidx' = [hidx EXCEPT ![g] = 1]
    /\ hout' = [hout EXCEPT ![g] = "none"]
    /\ htrace' = [htrace EXCEPT ![g] = <<>>]
    /\ hcalls' = [hcalls EXCEPT ![g] = @ + 1]

\* A caller invokes h.Handle(ctx, r) itself.
HandleCall(g, h, r) ==
    /\ CanLog(g)
    /\ StartHandle(g, h, r)
    /\ UNCHANGED <<levelCells, handlers, hcfg, hmu, wcalls, hdata, derived,
                   hderiv, nset,
                   lastSet>>

\* A caller logs through slog.New(h): the Logger calls h.Enabled and, only when
\* it returns true, h.Handle.
LoggerLog(g, h, r) ==
    /\ CanLog(g)
    /\ IF Enabled(h, r.level)
       THEN StartHandle(g, h, r)
       ELSE /\ hcalls' = [hcalls EXCEPT ![g] = @ + 1]
            /\ hout' = [hout EXCEPT ![g] = "gated"]
            /\ htrace' = [htrace EXCEPT ![g] = <<>>]
            /\ UNCHANGED <<hpc, hh, hrec, hrec0, hidx>>
    /\ UNCHANGED <<levelCells, handlers, hcfg, hmu, wcalls, hdata, derived,
                   hderiv, nset,
                   lastSet>>

\* An Interceptor's result is never taken for nil.
DroppedNever(out) == FALSE

\* Handle, line 83: `if rec == nil`.
Dropped(out) == out.nil

\* Handle, lines 81-86: one turn of the range over h.interceptors.
HandleIntercept(g) ==
    /\ hpc[g] = "intercept"
    /\ hidx[g] <= Len(hcfg.interceptors)
    /\ LET out == ApplyInterceptor(hcfg.interceptors[hidx[g]], hrec[g]) IN
          /\ htrace' = [htrace EXCEPT ![g] =
                 Append(@, [ev |-> "intercept", i |-> hidx[g], arg |-> hrec[g]])]
          /\ hrec' = [hrec EXCEPT ![g] = out]
          /\ IF Dropped(out)
             THEN /\ hpc' = [hpc EXCEPT ![g] = "idle"]
                  /\ hout' = [hout EXCEPT ![g] = "nil"]
                  /\ hidx' = hidx
             ELSE /\ hidx' = [hidx EXCEPT ![g] = @ + 1]
                  /\ UNCHANGED <<hpc, hout>>
    /\ UNCHANGED <<levelCells, handlers, hcfg, hmu, wcalls, hh, hrec0, hdata, hcalls, derived,
                   hderiv, nset, lastSet>>

\* A Formatter's error is never seen.
FormatFailedNever(res) == FALSE

\* Handle, line 94: `if err != nil`.
FormatFailed(res) == res.err # "nil"

\* Handle, lines 89-96: return nil without a formatter; else Format once and
\* return its error, if any.
HandleFormat(g) ==
    /\ hpc[g] = "intercept"
    /\ hidx[g] > Len(hcfg.interceptors)
    /\ IF hcfg.formatter = "none"
       THEN /\ hpc' = [hpc EXCEPT ![g] = "idle"]
            /\ hout' = [hout EXCEPT ![g] = "nil"]
            /\ UNCHANGED <<htrace, hdata>>
       ELSE LET res == Format(hcfg.formatter, hrec[g]) IN
            /\ htrace' = [htrace EXCEPT ![g] =
                   Append(@, [ev |-> "format", i |-> 0, arg |-> hrec[g]])]
            /\ IF FormatFailed(res)
               THEN /\ hpc' = [hpc EXCEPT ![g] = "idle"]
                    /\ hout' = [hout EXCEPT ![g] = res.err]
                    /\ hdata' = hdata
               ELSE /\ hpc' = [hpc EXCEPT ![g] = "lock"]
                    /\ hdata' = [hdata EXCEPT ![g] = res.data]
                    /\ hout' = hout
    /\ UNCHANGED <<levelCells, handlers, hcfg, hmu, wcalls, hh, hrec, hrec0, hidx,
                   hcalls, derived,
                   hderiv, nset, lastSet>>

\* Handle, line 99: h.mu.Lock().
HandleLock(g) ==
    /\ hpc[g] = "lock"
    /\ hmu[hh[g]] = 0
    /\ hmu' = [hmu EXCEPT ![hh[g]] = g]
    /\ hpc' = [hpc EXCEPT ![g] = "write"]
    /\ hidx' = [hidx EXCEPT ![g] = 1]
    /\ UNCHANGED <<levelCells, handlers, hcfg, wcalls, hh, hrec, hrec0, hdata, hout,
                   htrace, hcalls, derived,
                   hderiv, nset, lastSet>>

\* The range over h.writers ends at the first Write that fails.
AfterWriteErrorBreak(i, n) == n + 1

\* Handle, lines 103-106: `continue` after a failed Write.
AfterWriteError(i, n) == i + 1

\* Handle, lines 102-107: one turn of the range over h.writers.
HandleWrite(g) ==
    /\ hpc[g] = "write"
    /\ hidx[g] <= Len(hcfg.writers)
    /\ LET res == WriterWrite(hcfg.writers[hidx[g]], hdata[g]) IN
          /\ wcalls' = Append(wcalls, [w |-> hidx[g], data |-> hdata[g], by |-> g,
                                       inner |-> res.calls, n |-> res.n,
                                       err |-> res.err])
          /\ hidx' = [hidx EXCEPT ![g] =
                 IF res.err # "nil" THEN AfterWriteError(@, Len(hcfg.writers))
                 ELSE @ + 1]
    /\ htrace' = [htrace EXCEPT ![g] =
           Append(@, [ev |-> "write", i |-> hidx[g], arg |-> hdata[g]])]
    /\ UNCHANGED <<levelCells, handlers, hcfg, hmu, hpc, hh, hrec, hrec0, hdata,
                   hout, hcalls, derived,
                   hderiv, nset, lastSet>>

\* Handle, lines 100 and 109: the deferred h.mu.Unlock() and return nil.
HandleUnlock(g) ==
    /\ hpc[g] = "write"
    /\ hidx[g] > Len(hcfg.writers)
    /\ hmu' = [hmu EXCEPT ![hh[g]] = 0]
    /\ hpc' = [hpc EXCEPT ![g] = "idle"]
    /\ hout' = [hout EXCEPT ![g] = "nil"]
    /\ UNCHANGED <<levelCells, handlers, hcfg, wcalls, hh, hrec, hrec0, hidx, hdata,
                   htrace, hcalls, derived,
                   hderiv, nset, lastSet>>

\* The receiver's attrs and groups become those of the new Handler as well.
NewSnapshotShared(hs, h, c) == Append([hs EXCEPT ![h] = c], c)

\* clone, line 136, and the `return clone` of WithAttrs and WithGroup: the
\* Handler returned is a new object; h is left as it was.
NewSnapshot(hs, h, c) == Append(hs, c)

\* A clone that starts without the receiver's attrs.
cloneNoAttrs(h) ==
    [handler |-> [handlers[h] EXCEPT !.attrs = <<>>], cells |-> levelCells]

\* A clone that gets a LevelVar of its own, holding the current level.
cloneOwnLevelVar(h) ==
    [handler |-> [handlers[h] EXCEPT !.levelVar = Len(levelCells) + 1],
     cells |-> Append(levelCells, Level(h))]

\* clone: a new Handler with the same levelVar, formatter, writers and
\* interceptors, copies of groups and attrs, and a mu of its own.
clone(h) ==
    [handler |-> [levelVar |-> handlers[h].levelVar,
                  groups |-> <<>> \o handlers[h].groups,
                  attrs |-> <<>> \o handlers[h].attrs],
     cells |-> levelCells]

\* WithAttrs: the receiver itself for no attrs, else a clone with them appended.
WithAttrs(h, as) ==
    /\ IF Len(as) = 0
       THEN /\ derived' = h
            /\ UNCHANGED <<levelCells, handlers, hmu, hderiv>>
       ELSE /\ Len(handlers) < MaxSnapshots
            /\ LET c == clone(h) IN
                  /\ handlers' = NewSnapshot(handlers, h,
                                            [c.handler EXCEPT !.attrs = @ \o as])
                  /\ levelCells' = c.cells
            /\ hmu' = Append(hmu, 0)
            /\ derived' = Len(handlers) + 1
            /\ hderiv' = Append(hderiv, [parent |-> h, op |-> "WithAttrs",
                                         arg |-> as])
    /\ UNCHANGED <<hcfg, wcalls, hpc, hh, hrec, hrec0, hidx, hdata, hout, htrace, hcalls, nset, lastSet>>

\* WithGroup: the receiver itself for the empty name, else a clone with the
\* name appended to its groups.
WithGroup(h, name) ==
    /\ IF name = ""
       THEN /\ derived' = h
            /\ UNCHANGED <<levelCells, handlers, hmu, hderiv>>
       ELSE /\ Len(handlers) < MaxSnapshots
            /\ LET c == clone(h) IN
                  /\ handlers' = NewSnapshot(handlers, h,
                                            [c.handler EXCEPT !.groups = Append(@, name)])
                  /\ levelCells' = c.cells
            /\ hmu' = Append(hmu, 0)
            /\ derived' = Len(handlers) + 1
            /\ hderiv' = Append(hderiv, [parent |-> h, op |-> "WithGroup",
                                         arg |-> <<name>>])
    /\ UNCHANGED <<hcfg, wcalls, hpc, hh, hrec, hrec0, hidx, hdata, hout, htrace, hcalls, nset, lastSet>>

\* SetLevel: h.levelVar.Set(level).
SetLevel(h, level) ==
    /\ nset < MaxSetLevels
    /\ levelCells' = [levelCells EXCEPT ![handlers[h].levelVar] = level]
    /\ nset' = nset + 1
    /\ lastSet' = <<level>>
    /\ UNCHANGED <<handlers, hcfg, hmu, wcalls, hpc, hh, hrec, hrec0, hidx, hdata,
                   hout, htrace, hcalls, derived,
                   hderiv>>

Snapshots == 1..Len(handlers)

\* ------------------------------------------------------- the global logger

\* Number of Init, Close, Sync and SetLevel calls.
MaxGlobalCalls == 3

\* The goroutines that call Init, Close, Sync and SetLevel.
GProcs == {1, 2}

VARIABLES
    globalHandler,  \* globalHandler: a Handler of `handlers`, 0 for nil
    gwriters,       \* gwriters[h]: the Writers of Handler h
    gmu,            \* the goroutine holding globalMu (0: unlocked)
    gpc,            \* per goroutine: position inside Init, Close or Sync
    gh,             \* per goroutine: the local h of Init and of Sync
    gerr,           \* per goroutine: the local err of Close
    gret,           \* per goroutine: the last call that returned and its result
    gcalls,         \* the Close and Sync calls made on Handlers, in order
    ginstalled,     \* the Handlers that have been globalHandler
    gcount,         \* number of Close, Sync and SetLevel calls started
    glast,          \* <<the string of the last SetLevel call>> (<<>> before it)
    slogDefault     \* the Handler behind slog.Default(), 0 for the one of the runtime

gvars == <<globalHandler, gwriters, gmu, gpc, gh, gerr, gret, gcalls,
           ginstalled, gcount, glast, slogDefault>>

\* What the global logger's operations leave alone in the Handler's state.
hrest == <<hcfg, wcalls, hpc, hh, hrec, hrec0, hidx, hdata, hout, htrace,
           hcalls, derived,
                   hderiv, nset, lastSet>>

\* strings.ToUpper on the level strings used.
ToUpper(s) ==
    IF s = "debug" THEN "DEBUG"
    ELSE IF s = "warning" THEN "WARNING"
    ELSE IF s = "trace" THEN "TRACE"
    ELSE s

\* ParseLevel.
ParseLevel(level) ==
    LET u == ToUpper(level) IN
    IF u = "DEBUG" THEN LevelDebug
    ELSE IF u = "INFO" THEN LevelInfo
    ELSE IF u \in {"WARN", "WARNING"} THEN LevelWarn
    ELSE IF u = "ERROR" THEN LevelError
    ELSE LevelInfo

\* The strings given to SetLevel and to WithLevel.
LevelStrings == {"debug", "ERROR", "trace"}
OptionLevels == {"DEBUG", "warning"}

\* The firstErr of a loop keeps the error it saw last.
KeepLast(firstErr, err) == IF err # "nil" THEN err ELSE firstErr

\* `if err != nil && firstErr == nil { firstErr = err }`.
KeepFirst(firstErr, err) == IF err # "nil" /\ firstErr = "nil" THEN err ELSE firstErr

\* Close or Sync of a Writer that is no MultiWriter.
PlainResult(kind) == IF kind \in {"err", "err2"} THEN kind ELSE "nil"

\* The firstErr a loop over the results rs ends with, having started at the
\* i-th with firstErr.
RECURSIVE FirstErr(_, _, _)
FirstErr(rs, i, firstErr) ==
    IF i > Len(rs) THEN firstErr
    ELSE FirstErr(rs, i + 1, KeepFirst(firstErr, rs[i]))

\* MultiWriter.Close: w.Close() on each of m.writers, returning firstErr.
MultiClose(ws) ==
    [calls |-> [i \in 1..Len(ws) |-> [w |-> i, op |-> "Close", inner |-> <<>>,
                                     err |-> PlainResult(ws[i])]],
     err |-> FirstErr([i \in 1..Len(ws) |-> PlainResult(ws[i])], 1, "nil")]

\* MultiWriter.Sync: w.Sync() on each of m.writers, returning firstErr.
MultiSync(ws) ==
    [calls |-> [i \in 1..Len(ws) |-> [w |-> i, op |-> "Sync", inner |-> <<>>,
                                     err |-> PlainResult(ws[i])]],
     err |-> FirstErr([i \in 1..Len(ws) |-> PlainResult(ws[i])], 1, "nil")]

\* w.Close() and w.Sync() for a Writer of the given kind: the calls it makes
\* on its inner writers and what it returns.
WriterClose(kind) ==
    IF kind = "multi" THEN MultiClose(MultiInner)
    ELSE [calls |-> <<>>, err |-> PlainResult(kind)]

WriterSync(kind) ==
    IF kind = "multi" THEN MultiSync(MultiInner)
    ELSE [calls |-> <<>>, err |-> PlainResult(kind)]

\* Handler.Close: w.Close() on each of h.writers, returning firstErr.
HandlerClose(ws) ==
    [calls |-> [i \in 1..Len(ws) |->
                   [w |-> i, op |-> "Close", inner |-> WriterClose(ws[i]).calls,
                    err |-> WriterClose(ws[i]).err]],
     err |-> FirstErr([i \in 1..Len(ws) |-> WriterClose(ws[i]).err], 1, "nil")]

\* Handler.Sync: w.Sync() on each of h.writers, returning firstErr.
HandlerSync(ws) ==
    [calls |-> [i \in 1..Len(ws) |->
                   [w |-> i, op |-> "Sync", inner |-> WriterSync(ws[i]).calls,
                    err |-> WriterSync(ws[i]).err]],
     err |-> FirstErr([i \in 1..Len(ws) |-> WriterSync(ws[i]).err], 1, "nil")]

\* The options given to Init: WithLevelVar or not, WithLevel, WithWriter.
GlobalWriterLists == {<<>>, <<"ok", "err", "multi", "err2">>}

GlobalOptions == [levelVar : {"nil", "custom"}, level : OptionLevels,
                  writers : GlobalWriterLists]

\* The slog.LevelVar objects: globalLevelVar and the one given to WithLevelVar.
GlobalLevelVar == 1
CustomLevelVar == 2

\* Before any call: globalLevelVar is at LevelInfo (init), globalHandler is nil.
GlobalIdle ==
    /\ globalHandler = 0
    /\ gwriters = <<>>
    /\ gmu = 0
    /\ gpc = [p \in GProcs |-> "idle"]
    /\ gh = [p \in GProcs |-> 0]
    /\ gerr = [p \in GProcs |-> "nil"]
    /\ gret = [p \in GProcs |-> [op |-> "none", err |-> "nil"]]
    /\ gcalls = <<>>
    /\ ginstalled = {}
    /\ gcount = 0
    /\ glast = <<>>
    /\ slogDefault = 0

\* globalMu is treated as always free.
GlobalMuFreeAlways == TRUE

\* globalMu.Lock() can be taken.
GlobalMuFree == gmu = 0

CanCallGlobal(p) == gpc[p] = "idle" /\ gcount < MaxGlobalCalls

\* Init, lines 34-74: the options, the default writer, levelVar.Set and
\* NewHandler.
GlobalInitStart(p, o) ==
    /\ CanCallGlobal(p)
    /\ LET lv == IF o.levelVar = "nil" THEN GlobalLevelVar ELSE CustomLevelVar
           ws == IF Len(o.writers) = 0 THEN <<"ok">> ELSE o.writers IN
          /\ levelCells' = [levelCells EXCEPT ![lv] = ParseLevel(o.level)]
          /\ handlers' = Append(handlers, [levelVar |-> lv, groups |-> <<>>,
                                           attrs |-> <<>>])
          /\ hmu' = Append(hmu, 0)
          /\ gwriters' = Append(gwriters, ws)
    /\ gh' = [gh EXCEPT ![p] = Len(handlers) + 1]
    /\ gcount' = gcount + 1
    /\ gpc' = [gpc EXCEPT ![p] = "init_lock"]
    /\ UNCHANGED <<globalHandler, gmu, gerr, gret, gcalls, ginstalled, glast, slogDefault>>

\* Init, line 77: globalMu.Lock().
GlobalInitLock(p) ==
    /\ gpc[p] = "init_lock"
    /\ GlobalMuFree
    /\ gmu' = p
    /\ gpc' = [gpc EXCEPT ![p] = "init_close"]
    /\ UNCHANGED <<levelCells, handlers, hmu, globalHandler, gwriters,
                   gh, gerr, gret, gcalls, ginstalled, gcount, glast, slogDefault>>

\* Init, lines 78-80: close the Handler in place, its error discarded.
GlobalInitCloseOld(p) ==
    /\ gpc[p] = "init_close"
    /\ IF globalHandler # 0
       THEN LET res == HandlerClose(gwriters[globalHandler]) IN
            gcalls' = Append(gcalls, [h |-> globalHandler, op |-> "Close",
                                      calls |-> res.calls, err |-> res.err])
       ELSE gcalls' = gcalls
    /\ gpc' = [gpc EXCEPT ![p] = "init_set"]
    /\ UNCHANGED <<levelCells, handlers, hmu, globalHandler, gwriters,
                   gmu, gh, gerr, gret, ginstalled, gcount, glast, slogDefault>>

\* Init, lines 81-82: globalHandler = h; globalMu.Unlock().
GlobalInitSet(p) ==
    /\ gpc[p] = "init_set"
    /\ globalHandler' = gh[p]
    /\ ginstalled' = ginstalled \cup {gh[p]}
    /\ gmu' = 0
    /\ gpc' = [gpc EXCEPT ![p] = "init_default"]
    /\ UNCHANGED <<levelCells, handlers, hmu, gwriters, gh, gerr, gret, gcalls,
                   gcount, glast, slogDefault>>

\* Init, lines 84-85: slog.SetDefault(slog.New(h)), outside globalMu; return nil.
GlobalInitSetDefault(p) ==
    /\ gpc[p] = "init_default"
    /\ slogDefault' = gh[p]
    /\ gret' = [gret EXCEPT ![p] = [op |-> "Init", err |-> "nil"]]
    /\ gpc' = [gpc EXCEPT ![p] = "idle"]
    /\ UNCHANGED <<levelCells, handlers, hmu, globalHandler, gwriters, gmu, gh,
                   gerr, gcalls, ginstalled, gcount, glast>>

\* Close, line 150: globalMu.Lock().
GlobalCloseLock(p) ==
    /\ CanCallGlobal(p)
    /\ GlobalMuFree
    /\ gmu' = p
    /\ gcount' = gcount + 1
    /\ gpc' = [gpc EXCEPT ![p] = "close_call"]
    /\ UNCHANGED <<levelCells, handlers, hmu, globalHandler, gwriters,
                   gh, gerr, gret, gcalls, ginstalled, glast, slogDefault>>

\* Close, lines 153-154: err := globalHandler.Close() when there is a Handler.
GlobalCloseCall(p) ==
    /\ gpc[p] = "close_call"
    /\ IF globalHandler # 0
       THEN LET res == HandlerClose(gwriters[globalHandler]) IN
            /\ gcalls' = Append(gcalls, [h |-> globalHandler, op |-> "Close",
                                         calls |-> res.calls, err |-> res.err])
            /\ gerr' = [gerr EXCEPT ![p] = res.err]
            /\ gpc' = [gpc EXCEPT ![p] = "close_nil"]
       ELSE /\ gerr' = [gerr EXCEPT ![p] = "nil"]
            /\ gpc' = [gpc EXCEPT ![p] = "close_unlock"]
            /\ gcalls' = gcalls
    /\ UNCHANGED <<levelCells, handlers, hmu, globalHandler, gwriters,
                   gmu, gh, gret, ginstalled, gcount, glast, slogDefault>>

\* Close, line 155: globalHandler = nil.
GlobalCloseNil(p) ==
    /\ gpc[p] = "close_nil"
    /\ globalHandler' = 0
    /\ gpc' = [gpc EXCEPT ![p] = "close_unlock"]
    /\ UNCHANGED <<levelCells, handlers, hmu, gwriters, gmu, gh, gerr,
                   gret, gcalls, ginstalled, gcount, glast, slogDefault>>

\* Close, lines 151 and 156-158: return err, the deferred globalMu.Unlock().
GlobalCloseUnlock(p) ==
    /\ gpc[p] = "close_unlock"
    /\ gmu' = 0
    /\ gret' = [gret EXCEPT ![p] = [op |-> "Close", err |-> gerr[p]]]
    /\ gpc' = [gpc EXCEPT ![p] = "idle"]
    /\ UNCHANGED <<levelCells, handlers, hmu, globalHandler, gwriters,
                   gh, gerr, gcalls, ginstalled, gcount, glast, slogDefault>>

\* Sync, lines 163-165: h := globalHandler under the read lock.
GlobalSyncRead(p) ==
    /\ CanCallGlobal(p)
    /\ GlobalMuFree
    /\ gh' = [gh EXCEPT ![p] = globalHandler]
    /\ gcount' = gcount + 1
    /\ gpc' = [gpc EXCEPT ![p] = "sync_call"]
    /\ UNCHANGED <<levelCells, handlers, hmu, globalHandler, gwriters,
                   gmu, gerr, gret, gcalls, ginstalled, glast, slogDefault>>

\* Sync, lines 167-170: return h.Sync() when h is not nil, else nil.
GlobalSyncCall(p) ==
    /\ gpc[p] = "sync_call"
    /\ IF gh[p] # 0
       THEN LET res == HandlerSync(gwriters[gh[p]]) IN
            /\ gcalls' = Append(gcalls, [h |-> gh[p], op |-> "Sync",
                                         calls |-> res.calls, err |-> res.err])
            /\ gret' = [gret EXCEPT ![p] = [op |-> "Sync", err |-> res.err]]
       ELSE /\ gcalls' = gcalls
            /\ gret' = [gret EXCEPT ![p] = [op |-> "Sync", err |-> "nil"]]
    /\ gpc' = [gpc EXCEPT ![p] = "idle"]
    /\ UNCHANGED <<levelCells, handlers, hmu, globalHandler, gwriters,
                   gmu, gh, gerr, ginstalled, gcount, glast, slogDefault>>

\* logm.SetLevel: globalLevelVar.Set(ParseLevel(level)).
GlobalSetLevel(p, level) ==
    /\ CanCallGlobal(p)
    /\ levelCells' = [levelCells EXCEPT ![GlobalLevelVar] = ParseLevel(level)]
    /\ gcount' = gcount + 1
    /\ glast' = <<level>>
    /\ gret' = [gret EXCEPT ![p] = [op |-> "SetLevel", err |-> "nil"]]
    /\ UNCHANGED <<handlers, hmu, globalHandler, gwriters, gmu, gpc, gh,
                   gerr, gcalls, ginstalled, slogDefault>>

\* ------------------------------------------------------------ formatters

\* Longest message, attribute key and attribute value, in characters.
MaxStringLen == 2

\* The characters of messages, keys and values: a letter and a newline.
Chars == {"a", "\n"}

Strings == UNION {[1..n -> Chars] : n \in 0..MaxStringLen}

VARIABLES
    frec,   \* the Record given to Format
    fkind,  \* the formatter: "Text", "ColorText", "JSON" or "ColorJSON"
    fout,   \* the bytes Format returned, as a sequence of pieces
    fpc     \* "new" before the Format call, "done" after it

fvars == <<frec, fkind, fout, fpc>>

\* The pieces of the output: a byte of punctuation, a JSON key with its quotes
\* and colon, a quoted string, and text written as it is. s holds the
\* characters; a fixed word such as time or INFO counts as one character.
Punct(c) == [t |-> "punct", s |-> <<c>>]
Key(s) == [t |-> "key", s |-> s]
Str(s) == [t |-> "str", s |-> s]
Raw(s) == [t |-> "raw", s |-> s]

\* The byte 0x01, a control byte that has no escape of its own.
SOH == "SOH"

\* EscapeJSON: the five short escapes, \u00XX for the other bytes below 0x20.
RECURSIVE EscapeJSON(_)
EscapeJSON(s) ==
    IF s = <<>> THEN <<>>
    ELSE (IF Head(s) = "\n" THEN <<"\\", "n">>
          ELSE IF Head(s) = "\"" THEN <<"\\", "\"">>
          ELSE IF Head(s) = "\\" THEN <<"\\", "\\">>
          ELSE IF Head(s) = "\r" THEN <<"\\", "r">>
          ELSE IF Head(s) = "\t" THEN <<"\\", "t">>
          ELSE IF Head(s) = SOH THEN <<"\\", "u", "0", "0", "0", "1">>
          ELSE <<Head(s)>>) \o EscapeJSON(Tail(s))

\* writeJSONString.
writeJSONString(s) == Str(EscapeJSON(s))

\* The escapes of strconv.Quote: the short ones, \x01 for the byte 0x01.
RECURSIVE QuoteEscape(_)
QuoteEscape(s) ==
    IF s = <<>> THEN <<>>
    ELSE (IF Head(s) = "\n" THEN <<"\\", "n">>
          ELSE IF Head(s) = "\"" THEN <<"\\", "\"">>
          ELSE IF Head(s) = "\\" THEN <<"\\", "\\">>
          ELSE IF Head(s) = "\r" THEN <<"\\", "r">>
          ELSE IF Head(s) = "\t" THEN <<"\\", "t">>
          ELSE IF Head(s) = SOH THEN <<"\\", "x", "0", "1">>
          ELSE <<Head(s)>>) \o QuoteEscape(Tail(s))

\* strconv.Quote on these characters.
Quote(s) == Str(QuoteEscape(s))

\* The second loop of writeTextValue: the five short escapes, every other
\* character as it is.
RECURSIVE TextEscape(_)
TextEscape(s) ==
    IF s = <<>> THEN <<>>
    ELSE (IF Head(s) = "\"" THEN <<"\\", "\"">>
          ELSE IF Head(s) = "\\" THEN <<"\\", "\\">>
          ELSE IF Head(s) = "\n" THEN <<"\\", "n">>
          ELSE IF Head(s) = "\r" THEN <<"\\", "r">>
          ELSE IF Head(s) = "\t" THEN <<"\\", "t">>
          ELSE <<Head(s)>>) \o TextEscape(Tail(s))

\* writeTextValue: s as it is unless it is empty or holds a character that
\* needs quoting.
writeTextValue(s) ==
    LET needQuote == \E i \in 1..Len(s) : s[i] \in {" ", "\"", "=", "\n", "\r", "\t"} IN
    IF ~needQuote /\ Len(s) > 0 THEN Raw(s) ELSE Str(TextEscape(s))

\* DefaultLevelInfo(level).Name.
LevelName(level) ==
    IF level < LevelInfo THEN "DEBUG"
    ELSE IF level < LevelWarn THEN "INFO"
    ELSE IF level < LevelError THEN "WARN"
    ELSE "ERROR"

\* The attrs whose key is not empty.
Keyed(attrs) == SelectSeq(attrs, LAMBDA a : a.key # <<>>)

\* Concatenation of a sequence of sequences.
RECURSIVE Flatten(_)
Flatten(ss) == IF ss = <<>> THEN <<>> ELSE Head(ss) \o Flatten(Tail(ss))

\* JSONFormatter.writeAttrs and ColorJSONFormatter.writeAttrs: every group
\* opened, every keyed attr after a comma, every group closed.
\* JSONFormatter.writeValue and ColorJSONFormatter.writeValue: a string, or a
\* group of string attributes as an object.
JSONwriteValue(a) ==
    IF a.kind = "group"
    THEN <<Punct("{")>>
         \o Flatten([i \in 1..Len(a.members) |->
                        (IF i > 1 THEN <<Punct(",")>> ELSE <<>>)
                        \o <<Key(a.members[i].key), writeJSONString(a.members[i].value)>>])
         \o <<Punct("}")>>
    ELSE <<writeJSONString(a.value)>>

JSONwriteAttrs(attrs, groups) ==
    Flatten([i \in 1..Len(groups) |-> <<Punct(","), Key(groups[i]), Punct("{")>>])
    \o Flatten([i \in 1..Len(Keyed(attrs)) |->
                   <<Punct(","), Key(Keyed(attrs)[i].key)>>
                   \o JSONwriteValue(Keyed(attrs)[i])])
    \o [i \in 1..Len(groups) |-> Punct("}")]

\* JSONFormatter.Format and ColorJSONFormatter.Format (colours off).
JSONFormat(r) ==
    <<Punct("{"), Key(<<"time">>), Str(<<"T">>),
      Punct(","), Key(<<"level">>), Str(<<LevelName(r.level)>>),
      Punct(","), Key(<<"msg">>), writeJSONString(r.msg)>>
    \o (IF r.source THEN <<Punct(","), Key(<<"source">>), Str(<<"S">>)>> ELSE <<>>)
    \o JSONwriteAttrs(r.attrs, r.groups)
    \o <<Punct("}"), Punct("\n")>>

\* The prefix of writeAttrs: each group followed by a dot.
GroupPrefix(groups) == Flatten([i \in 1..Len(groups) |-> groups[i] \o <<".">>])

\* The prefix without its last character, the dot.
DropLast(q) == SubSeq(q, 1, Len(q) - 1)

\* TextFormatter.writeValue: a string, or a group of string attributes, each
\* written by writeAttr, those after the first behind a space and the prefix
\* without its dot.
TextwriteValue(a, prefix) ==
    IF a.kind = "group"
    THEN Flatten([i \in 1..Len(a.members) |->
                    (IF i > 1 THEN <<Punct(" "), Raw(DropLast(prefix))>> ELSE <<>>)
                    \o <<Raw(a.members[i].key), Punct("="),
                         writeTextValue(a.members[i].value)>>])
    ELSE <<writeTextValue(a.value)>>

\* TextFormatter.Format.
TextFormat(r) ==
    <<Raw(<<"time=">>), Raw(<<"T">>), Raw(<<" level=">>), Raw(<<LevelName(r.level)>>),
      Raw(<<" msg=">>), writeTextValue(r.msg)>>
    \o (IF r.source THEN <<Raw(<<" source=">>), Raw(<<"S">>)>> ELSE <<>>)
    \o Flatten([i \in 1..Len(Keyed(r.attrs)) |->
                   <<Punct(" "), Raw(GroupPrefix(r.groups)),
                     Raw(Keyed(r.attrs)[i].key), Punct("=")>>
                   \o TextwriteValue(Keyed(r.attrs)[i],
                                     GroupPrefix(r.groups) \o Keyed(r.attrs)[i].key
                                         \o <<".">>)])
    \o <<Punct("\n")>>

\* json.Unmarshal into an any, on texts of objects, arrays, strings and
\* unsigned decimal numbers (the literals true, false and null, signs and
\* exponents are not among the characters used). A value is [kind, items]:
\* the characters of a string, <<integer digits, fraction digits>> of a
\* number, the elements of an array, the [k, v] members of an object.
JSONSpace == {" ", "\n", "\r", "\t"}
Digits == {"0", "1", "2", "3", "4", "5", "6", "7", "8", "9"}
NilJSON == [kind |-> "null", items |-> <<>>]
ParseFail == [ok |-> FALSE, v |-> NilJSON, rest |-> <<>>]
ParseOk(kind, items, rest) == [ok |-> TRUE, v |-> [kind |-> kind, items |-> items], rest |-> rest]

RECURSIVE SkipSpace(_)
SkipSpace(s) == IF s # <<>> /\ Head(s) \in JSONSpace THEN SkipSpace(Tail(s)) ELSE s

\* The characters of a string literal after its opening quote.
RECURSIVE ScanString(_, _)
ScanString(acc, s) ==
    IF s = <<>> THEN ParseFail
    ELSE IF Head(s) = "\"" THEN ParseOk("str", acc, Tail(s))
    ELSE IF Head(s) = "\\" THEN
        IF Len(s) < 2 THEN ParseFail
        ELSE IF s[2] \in {"\"", "\\"} THEN ScanString(Append(acc, s[2]), SubSeq(s, 3, Len(s)))
        ELSE IF s[2] = "n" THEN ScanString(Append(acc, "\n"), SubSeq(s, 3, Len(s)))
        ELSE IF s[2] = "r" THEN ScanString(Append(acc, "\r"), SubSeq(s, 3, Len(s)))
        ELSE IF s[2] = "t" THEN ScanString(Append(acc, "\t"), SubSeq(s, 3, Len(s)))
        ELSE ParseFail
    ELSE IF Head(s) \in {"\n", "\r", "\t", SOH} THEN ParseFail
    ELSE ScanString(Append(acc, Head(s)), Tail(s))

\* The number of digits s starts with.
RECURSIVE DigitRun(_)
DigitRun(s) == IF s # <<>> /\ Head(s) \in Digits THEN 1 + DigitRun(Tail(s)) ELSE 0

\* The fraction digits without their trailing zeros: the float64 keeps the value.
RECURSIVE TrimZeros(_)
TrimZeros(d) == IF d # <<>> /\ d[Len(d)] = "0" THEN TrimZeros(SubSeq(d, 1, Len(d) - 1)) ELSE d

ScanNumber(s) ==
    LET n == DigitRun(s)
        t == SubSeq(s, n + 1, Len(s))
        m == IF t # <<>> /\ Head(t) = "." THEN DigitRun(Tail(t)) ELSE 0 IN
    IF n = 0 \/ (n > 1 /\ s[1] = "0") THEN ParseFail
    ELSE IF t # <<>> /\ Head(t) = "." THEN
        IF m = 0 THEN ParseFail
        ELSE ParseOk("num", <<SubSeq(s, 1, n), TrimZeros(SubSeq(t, 2, m + 1))>>,
                     SubSeq(t, m + 2, Len(t)))
    ELSE ParseOk("num", <<SubSeq(s, 1, n), <<>> >>, t)

\* A Go map keeps one value per key: the last one.
PutMember(ms, k, v) ==
    IF \E i \in 1..Len(ms) : ms[i].k = k
    THEN [i \in 1..Len(ms) |-> IF ms[i].k = k THEN [k |-> k, v |-> v] ELSE ms[i]]
    ELSE Append(ms, [k |-> k, v |-> v])

RECURSIVE ParseValue(_)
RECURSIVE ParseElems(_, _)
RECURSIVE ParseMembers(_, _)

ParseValue(s0) ==
    LET s == SkipSpace(s0) IN
    IF s = <<>> THEN ParseFail
    ELSE IF Head(s) = "\"" THEN ScanString(<<>>, Tail(s))
    ELSE IF Head(s) \in Digits THEN ScanNumber(s)
    ELSE IF Head(s) = "[" THEN
        LET s1 == SkipSpace(Tail(s)) IN
        IF s1 # <<>> /\ Head(s1) = "]" THEN ParseOk("arr", <<>>, Tail(s1))
        ELSE ParseElems(<<>>, s1)
    ELSE IF Head(s) = "{" THEN
        LET s1 == SkipSpace(Tail(s)) IN
        IF s1 # <<>> /\ Head(s1) = "}" THEN ParseOk("obj", <<>>, Tail(s1))
        ELSE ParseMembers(<<>>, s1)
    ELSE ParseFail

ParseElems(acc, s) ==
    LET r == ParseValue(s)
        s2 == SkipSpace(r.rest) IN
    IF ~r.ok \/ s2 = <<>> THEN ParseFail
    ELSE IF Head(s2) = "]" THEN ParseOk("arr", Append(acc, r.v), Tail(s2))
    ELSE IF Head(s2) = "," THEN ParseElems(Append(acc, r.v), Tail(s2))
    ELSE ParseFail

ParseMembers(acc, s0) ==
    LET s == SkipSpace(s0)
        k == IF s # <<>> /\ Head(s) = "\"" THEN ScanString(<<>>, Tail(s)) ELSE ParseFail
        s1 == SkipSpace(k.rest)
        r == IF k.ok /\ s1 # <<>> /\ Head(s1) = ":" THEN ParseValue(Tail(s1)) ELSE ParseFail
        s2 == SkipSpace(r.rest) IN
    IF ~r.ok \/ s2 = <<>> THEN ParseFail
    ELSE IF Head(s2) = "}" THEN ParseOk("obj", PutMember(acc, k.v.items, r.v), Tail(s2))
    ELSE IF Head(s2) = "," THEN ParseMembers(PutMember(acc, k.v.items, r.v), Tail(s2))
    ELSE ParseFail

\* json.Unmarshal: the whole text is one value.
Unmarshal(s) ==
    LET r == ParseValue(s) IN
    IF r.ok /\ SkipSpace(r.rest) = <<>> THEN r ELSE ParseFail

Reverse(q) == [i \in 1..Len(q) |-> q[Len(q) + 1 - i]]

\* strconv.FormatFloat(val, 'f', -1, 64) on these numbers.
FormatFloat(n) == IF n[2] = <<>> THEN n[1] ELSE n[1] \o <<".">> \o n[2]

\* coloredKV (colours off): key=value.
coloredKV(path, value) == <<Raw(path), Punct("="), value>>

\* flattenValue: the parts, one per leaf. The members of a map come in the
\* order of the range over it, which Go does not fix: rev is its choice here.
RECURSIVE flattenValue(_, _, _)
flattenValue(v, path, rev) ==
    IF v.kind = "obj" THEN
        LET ms == IF rev THEN Reverse(v.items) ELSE v.items IN
        Flatten([i \in 1..Len(ms) |-> flattenValue(ms[i].v, path \o <<".">> \o ms[i].k, rev)])
    ELSE IF v.kind = "arr" THEN
        Flatten([i \in 1..Len(v.items) |->
                    flattenValue(v.items[i], path \o <<"[", ToString(i - 1), "]">>, rev)])
    ELSE IF v.kind = "str" THEN <<coloredKV(path, Quote(v.items))>>
    ELSE IF v.kind = "num" THEN <<coloredKV(path, Raw(FormatFloat(v.items)))>>
    ELSE <<coloredKV(path, Raw(<<"null">>))>>

\* strings.Join(parts, " ").
JoinParts(parts) ==
    Flatten([i \in 1..Len(parts) |-> IF i = 1 THEN parts[i] ELSE <<Punct(" ")>> \o parts[i]])

\* tryFlattenJSON: the joined parts, empty when s is not JSON.
tryFlattenJSON(s, keyPath, rev) ==
    IF Unmarshal(s).ok THEN JoinParts(flattenValue(Unmarshal(s).v, keyPath, rev)) ELSE <<>>

\* ColorTextFormatter.writeValue on a string.
ColorTextwriteString(s, keyPath, rev) ==
    IF s # <<>> /\ Head(s) \in {"{", "["} /\ tryFlattenJSON(s, keyPath, rev) # <<>>
    THEN tryFlattenJSON(s, keyPath, rev)
    ELSE <<Quote(s)>>

\* ColorTextFormatter.writeValue: a string, or a group of string attributes,
\* each written by writeAttr under the key path and a dot.
ColorTextwriteValue(a, keyPath, rev) ==
    IF a.kind = "group"
    THEN Flatten([i \in 1..Len(a.members) |->
                    (IF i > 1 THEN <<Punct(" ")>> ELSE <<>>)
                    \o <<Raw(keyPath \o <<".">> \o a.members[i].key), Punct("=")>>
                    \o ColorTextwriteString(a.members[i].value,
                                            keyPath \o <<".">> \o a.members[i].key, rev)])
    ELSE ColorTextwriteString(a.value, keyPath, rev)

\* ColorTextFormatter.writeAttr: the key, "=", then the value.
ColorTextwriteAttr(attr, prefix, rev) ==
    <<Raw(prefix \o attr.key), Punct("=")>>
    \o ColorTextwriteValue(attr, prefix \o attr.key, rev)

\* ColorTextFormatter.Format (colours off).
ColorTextFormat(r, rev) ==
    <<Raw(<<"T">>), Punct(" "), Raw(<<LevelName(r.level)>>), Punct(" "), Raw(r.msg)>>
    \o Flatten([i \in 1..Len(Keyed(r.attrs)) |->
                   <<Punct(" ")>>
                   \o ColorTextwriteAttr(Keyed(r.attrs)[i], GroupPrefix(r.groups), rev)])
    \o (IF r.source THEN <<Punct(" "), Raw(<<"S">>)>> ELSE <<>>)
    \o <<Punct("\n")>>

FormatterNames == {"Text", "ColorText", "JSON", "ColorJSON"}

\* f.Format(r) for the formatter of the given name.
FormatBy(name, r, rev) ==
    IF name = "Text" THEN TextFormat(r)
    ELSE IF name = "ColorText" THEN ColorTextFormat(r, rev)
    ELSE JSONFormat(r)

\* The Records formatted: at most one attr, at most one group.
\* {"u":"a","n":30}, ["a",3.0], {"u":[3]}, {} and {a as attribute values.
JSONObject == <<"{", "\"", "u", "\"", ":", "\"", "a", "\"", ",", "\"", "n", "\"", ":", "3", "0", "}">>
JSONArray == <<"[", "\"", "a", "\"", ",", "3", ".", "0", "]">>
JSONNested == <<"{", "\"", "u", "\"", ":", "[", "3", "]", "}">>
JSONValues == {JSONObject, JSONArray, JSONNested, <<"{", "}">>, <<"{", "a">>}

AttrValues ==
    {<<>>, <<"a">>, <<"\n">>, <<"\"">>, <<"a", SOH>>, <<"a", " ", SOH>>} \cup JSONValues

\* A string attribute, and the members of the group attributes.
StringAttr(k, v) == [key |-> k, value |-> v, kind |-> "string", members |-> <<>>]
GroupMembers ==
    {<<>>, <<StringAttr(<<"k">>, <<"a">>)>>,
     <<StringAttr(<<"k">>, <<"a">>), StringAttr(<<"j">>, <<"a", " ">>)>>}

\* The attributes: strings, and groups of strings under the key "g".
FormatAttrs ==
    [key : {<<>>, <<"k">>, <<"k", "\n">>}, value : AttrValues, kind : {"string"},
     members : {<<>>}]
    \cup {[key |-> <<"g">>, value |-> <<>>, kind |-> "group", members |-> ms] :
             ms \in GroupMembers}

FormatRecords ==
    [level : {LevelInfo}, msg : Strings,
     attrs : {<<>>} \cup {<<a>> : a \in FormatAttrs},
     groups : {<<>>, <<<<"g">>>>}, source : BOOLEAN]

\* No Format call is under way.
FormatIdle ==
    /\ frec = [level |-> LevelInfo, msg |-> <<>>, attrs |-> <<>>, groups |-> <<>>,
               source |-> FALSE]
    /\ fkind = "Text"
    /\ fout = <<>>
    /\ fpc = "new"

\* A formatter and a Record to give it.
FormatInit ==
    /\ frec \in FormatRecords
    /\ fkind \in FormatterNames
    /\ fout = <<>>
    /\ fpc = "new"

\* data, err := f.Format(r).
DoFormat ==
    /\ fpc = "new"
    /\ \E rev \in BOOLEAN : fout' = FormatBy(fkind, frec, rev)
    /\ fpc' = "done"
    /\ UNCHANGED <<frec, fkind>>

\* --------------------------------------------------------- specifications

\* ---------------------------------------------------------------------------
\* Package logger: Config, New, NewWithCloser, Init, InitCfg and Close.
\* ---------------------------------------------------------------------------

MaxLoggerCalls == 2

VARIABLES
    globalCloser,   \* the installed closer: 0 is nil, n the file opened by call n
    defaultLogger,  \* slog.Default(): 0 the one of the runtime, n the Logger of call n
    fileClosed,     \* the files whose Close was called
    lcount,         \* calls made
    lret            \* the last call: [op, cfg, err, logger, closer]

lvars == <<globalCloser, defaultLogger, fileClosed, lcount, lret>>

validFormats == {"json", "text", "color", "colored"}
validLevels == {"DEBUG", "INFO", "WARN", "WARNING", "ERROR"}

\* A nil *Config, and the Configs given.
NilConfig == [nil |-> TRUE, Level |-> "", Format |-> "", Output |-> ""]
defaultConfig == [nil |-> FALSE, Level |-> "INFO", Format |-> "text", Output |-> "stdout"]

Configs ==
    {NilConfig} \cup
    [nil : {FALSE}, Level : {"", "warning", "trace"},
     Format : {"", "json", "colored", "JSON"},
     Output : {"stdout", "file", "nofile"}]

ValidateNever(c) == "nil"

\* Config.Validate: the error, "nil" for none.
Validate(c) ==
    IF c.Format # "" /\ c.Format \notin validFormats THEN "invalid log format"
    ELSE IF c.Level # "" /\ ToUpper(c.Level) \notin validLevels THEN "invalid log level"
    ELSE "nil"

\* getWriter: [closer, err]; the file "nofile" cannot be opened, the file
\* opened by call n is the closer n.
getWriter(output, n) ==
    IF output \in {"stdout", "", "stderr"} THEN [closer |-> 0, err |-> "nil"]
    ELSE IF output = "nofile" THEN [closer |-> 0, err |-> "open"]
    ELSE [closer |-> n, err |-> "nil"]

\* NewWithCloser as call n: [logger, closer, err].
NewWithCloser(c, n) ==
    LET cfg == IF c.nil THEN defaultConfig ELSE c
        w == getWriter(cfg.Output, n) IN
    IF Validate(cfg) # "nil" THEN [logger |-> 0, closer |-> 0, err |-> Validate(cfg)]
    ELSE IF w.err # "nil" THEN [logger |-> 0, closer |-> 0, err |-> w.err]
    ELSE [logger |-> n, closer |-> w.closer, err |-> "nil"]

LoggerIdle ==
    /\ globalCloser = 0
    /\ defaultLogger = 0
    /\ fileClosed = {}
    /\ lcount = 0
    /\ lret = [op |-> "none", cfg |-> NilConfig, err |-> "nil", logger |-> 0, closer |-> 0]

\* Init and InitCfg, which have the same body.
LoggerInit(cfg) ==
    LET r == NewWithCloser(cfg, lcount + 1) IN
    /\ lcount < MaxLoggerCalls
    /\ lcount' = lcount + 1
    /\ lret' = [op |-> "Init", cfg |-> cfg, err |-> r.err, logger |-> r.logger,
                closer |-> r.closer]
    /\ IF r.err # "nil"
       THEN UNCHANGED <<globalCloser, defaultLogger, fileClosed>>
       ELSE /\ fileClosed' = IF globalCloser # 0 THEN fileClosed \cup {globalCloser}
                             ELSE fileClosed
            /\ globalCloser' = r.closer
            /\ defaultLogger' = r.logger

\* NewWithCloser called by the program; New is the same call without the closer.
LoggerNew(cfg) ==
    LET r == NewWithCloser(cfg, lcount + 1) IN
    /\ lcount < MaxLoggerCalls
    /\ lcount' = lcount + 1
    /\ lret' = [op |-> "New", cfg |-> cfg, err |-> r.err, logger |-> r.logger,
                closer |-> r.closer]
    /\ UNCHANGED <<globalCloser, defaultLogger, fileClosed>>

\* Close of the package.
LoggerClose ==
    /\ lcount < MaxLoggerCalls
    /\ lcount' = lcount + 1
    /\ lret' = [op |-> "Close", cfg |-> NilConfig, err |-> "nil", logger |-> 0, closer |-> 0]
    /\ fileClosed' = IF globalCloser # 0 THEN fileClosed \cup {globalCloser} ELSE fileClosed
    /\ globalCloser' = 0
    /\ UNCHANGED defaultLogger

\* ---------------------------------------------------------------------------
\* Package logger: coloredHandler.formatFields.
\* ---------------------------------------------------------------------------

MaxPriorityKeys == 2
MaxTrailingKeys == 1

VARIABLES
    cfields,    \* fields: the map from key to value
    cpriority,  \* h.config.PriorityKeys
    ctrailing,  \* h.config.TrailingKeys
    cout,       \* the members written, in order: [key, value]
    cpc         \* "new" before the call, "done" after it

cvars == <<cfields, cpriority, ctrailing, cout, cpc>>

\* The keys used, as sequences of characters, and the bytes of the characters.
FieldKeys == {<<"B">>, <<"a">>, <<"a", "b">>, <<"b">>}
Code(c) == IF c = "B" THEN 66 ELSE IF c = "a" THEN 97 ELSE 98

\* s < t for Go strings: byte by byte, a proper prefix first.
RECURSIVE Less(_, _)
Less(s, t) ==
    IF t = <<>> THEN FALSE
    ELSE IF s = <<>> THEN TRUE
    ELSE IF Code(Head(s)) # Code(Head(t)) THEN Code(Head(s)) < Code(Head(t))
    ELSE Less(Tail(s), Tail(t))

\* sort.Strings on the keys collected from the map: the order of the range
\* over the map does not survive it.
RECURSIVE SortStrings(_)
SortStrings(S) ==
    IF S = {} THEN <<>>
    ELSE LET m == CHOOSE x \in S : \A y \in S \ {x} : Less(x, y) IN
         <<m>> \o SortStrings(S \ {m})

\* formatFields: the keys of allKeys with their values.
formatFields(fields, priorityKeys, trailingKeys) ==
    LET priorityFields == SelectSeq(priorityKeys, LAMBDA k : k \in DOMAIN fields)
        trailingFields == SelectSeq(trailingKeys, LAMBDA k : k \in DOMAIN fields)
        otherFields == SortStrings({k \in DOMAIN fields :
                                       /\ k \notin Range(priorityKeys)
                                       /\ k \notin Range(trailingKeys)})
        allKeys == priorityFields \o otherFields \o trailingFields IN
    [i \in 1..Len(allKeys) |-> [key |-> allKeys[i], value |-> fields[allKeys[i]]]]

SeqsUpTo(S, n) == UNION {[1..m -> S] : m \in 0..n}

FieldsIdle ==
    /\ cfields = <<>>
    /\ cpriority = <<>>
    /\ ctrailing = <<>>
    /\ cout = <<>>
    /\ cpc = "done"

FieldsInit ==
    /\ cfields \in UNION {[D -> {"v"}] : D \in SUBSET FieldKeys}
    /\ cpriority \in SeqsUpTo(FieldKeys, MaxPriorityKeys)
    /\ ctrailing \in SeqsUpTo(FieldKeys, MaxTrailingKeys)
    /\ cout = <<>>
    /\ cpc = "new"

DoFormatFields ==
    /\ cpc = "new"
    /\ cout' = formatFields(cfields, cpriority, ctrailing)
    /\ cpc' = "done"
    /\ UNCHANGED <<cfields, cpriority, ctrailing>>

\* ---------------------------------------------------------------------------
\* Specifications.
\* ---------------------------------------------------------------------------

vars == <<avars, hvars, gvars, fvars, lvars, cvars>>

\* What each specification leaves alone.
RestOfAsync == <<hvars, gvars, fvars, lvars, cvars>>
RestOfHandler == <<avars, gvars, fvars, lvars, cvars>>
RestOfGlobal == <<avars, hrest, fvars, lvars, cvars>>
RestOfFormat == <<avars, hvars, gvars, lvars, cvars>>
RestOfLogger == <<avars, hvars, gvars, fvars, cvars>>
RestOfFields == <<avars, hvars, gvars, fvars, lvars>>

\* The AsyncWriter with its callers.
Init == AsyncInit /\ HandlerFixed /\ GlobalIdle /\ FormatIdle /\ LoggerIdle /\ FieldsIdle

Next ==
    \/ RunRecv /\ UNCHANGED RestOfAsync
    \/ RunWrite /\ UNCHANGED RestOfAsync
    \/ \E p \in Procs : WriteCheck(p) /\ UNCHANGED RestOfAsync
    \/ \E p \in Procs : WriteSend(p) /\ UNCHANGED RestOfAsync
    \/ \E p \in Procs : CloseLock(p) /\ UNCHANGED RestOfAsync
    \/ \E p \in Procs : CloseChan(p) /\ UNCHANGED RestOfAsync
    \/ \E p \in Procs : CloseWait(p) /\ UNCHANGED RestOfAsync
    \/ \E p \in Procs : SyncCall(p) /\ UNCHANGED RestOfAsync
    \/ \E p \in Procs : SyncSend(p) /\ UNCHANGED RestOfAsync
    \/ \E p \in Procs : DrainRecv(p) /\ UNCHANGED RestOfAsync
    \/ \E p \in Procs : DrainWrite(p) /\ UNCHANGED RestOfAsync
    \/ \E p \in Procs : SyncWait(p) /\ UNCHANGED RestOfAsync

Spec == Init /\ [][Next]_vars

\* The steps of the goroutine run, of the goroutine inside a call of p, and of
\* the goroutine the Sync of p started.
RunStep == (RunRecv \/ RunWrite) /\ UNCHANGED RestOfAsync
CallStep(p) ==
    (WriteSend(p) \/ CloseChan(p) \/ CloseWait(p) \/ SyncSend(p) \/ SyncWait(p))
    /\ UNCHANGED RestOfAsync
DrainStep(p) == (DrainRecv(p) \/ DrainWrite(p)) /\ UNCHANGED RestOfAsync

\* The AsyncWriter under the Go scheduler: a goroutine that can run does run.
\* Nothing obliges the program to make a further call.
SpecFair ==
    /\ Spec
    /\ WF_vars(RunStep)
    /\ \A p \in Procs : WF_vars(CallStep(p)) /\ WF_vars(DrainStep(p))

\* One Handler and the goroutines logging through it.
InitHandler == HandlerInit /\ AsyncInit /\ GlobalIdle /\ FormatIdle /\ LoggerIdle /\ FieldsIdle

NextHandler ==
    \/ \E g \in HProcs, h \in Snapshots, r \in SlogRecords :
          HandleCall(g, h, r) /\ UNCHANGED RestOfHandler
    \/ \E g \in HProcs, h \in Snapshots, r \in SlogRecords :
          LoggerLog(g, h, r) /\ UNCHANGED RestOfHandler
    \/ \E g \in HProcs : HandleIntercept(g) /\ UNCHANGED RestOfHandler
    \/ \E g \in HProcs : HandleFormat(g) /\ UNCHANGED RestOfHandler
    \/ \E g \in HProcs : HandleLock(g) /\ UNCHANGED RestOfHandler
    \/ \E g \in HProcs : HandleWrite(g) /\ UNCHANGED RestOfHandler
    \/ \E g \in HProcs : HandleUnlock(g) /\ UNCHANGED RestOfHandler

SpecHandler == InitHandler /\ [][NextHandler]_vars

\* One Handler, the snapshots derived from it and its level.
InitLevels == HandlerFixed /\ AsyncInit /\ GlobalIdle /\ FormatIdle /\ LoggerIdle /\ FieldsIdle

NextLevels ==
    \/ \E h \in Snapshots, as \in AttrArgs : WithAttrs(h, as) /\ UNCHANGED RestOfHandler
    \/ \E h \in Snapshots, name \in GroupArgs : WithGroup(h, name) /\ UNCHANGED RestOfHandler
    \/ \E h \in Snapshots, level \in Levels : SetLevel(h, level) /\ UNCHANGED RestOfHandler

SpecLevels == InitLevels /\ [][NextLevels]_vars

\* The global logger: Init, Close, Sync and SetLevel from several goroutines.
InitGlobal ==
    /\ GlobalIdle
    /\ AsyncInit
    /\ HandlerIdle
    /\ FormatIdle
    /\ LoggerIdle /\ FieldsIdle
    /\ levelCells = <<LevelInfo, LevelInfo>>
    /\ handlers = <<>>
    /\ hmu = <<>>
    /\ hcfg = [formatter |-> "none", writers |-> <<>>, interceptors |-> <<>>]

NextGlobal ==
    \/ \E p \in GProcs, o \in GlobalOptions :
          GlobalInitStart(p, o) /\ UNCHANGED RestOfGlobal
    \/ \E p \in GProcs : GlobalInitLock(p) /\ UNCHANGED RestOfGlobal
    \/ \E p \in GProcs : GlobalInitCloseOld(p) /\ UNCHANGED RestOfGlobal
    \/ \E p \in GProcs : GlobalInitSet(p) /\ UNCHANGED RestOfGlobal
    \/ \E p \in GProcs : GlobalInitSetDefault(p) /\ UNCHANGED RestOfGlobal
    \/ \E p \in GProcs : GlobalCloseLock(p) /\ UNCHANGED RestOfGlobal
    \/ \E p \in GProcs : GlobalCloseCall(p) /\ UNCHANGED RestOfGlobal
    \/ \E p \in GProcs : GlobalCloseNil(p) /\ UNCHANGED RestOfGlobal
    \/ \E p \in GProcs : GlobalCloseUnlock(p) /\ UNCHANGED RestOfGlobal
    \/ \E p \in GProcs : GlobalSyncRead(p) /\ UNCHANGED RestOfGlobal
    \/ \E p \in GProcs : GlobalSyncCall(p) /\ UNCHANGED RestOfGlobal
    \/ \E p \in GProcs, level \in LevelStrings :
          GlobalSetLevel(p, level) /\ UNCHANGED RestOfGlobal

SpecGlobal == InitGlobal /\ [][NextGlobal]_vars

\* Goroutines logging through a Handler and through Handlers derived from it
\* by WithGroup, which share its Writers.
InitShared ==
    /\ NewHandler([levelVar |-> <<>>, formatter |-> "ok",
                   writers |-> <<"err", "multi", "ok">>,
                   interceptors |-> <<"tag", "dropSecret">>])
    /\ HandlerIdle
    /\ AsyncInit
    /\ GlobalIdle
    /\ FormatIdle
    /\ LoggerIdle /\ FieldsIdle

NextShared ==
    \/ \E h \in Snapshots, name \in GroupArgs :
          WithGroup(h, name) /\ UNCHANGED RestOfHandler
    \/ \E g \in HProcs, h \in Snapshots, r \in SlogRecords :
          r.level = LevelError /\ HandleCall(g, h, r) /\ UNCHANGED RestOfHandler
    \/ \E g \in HProcs : HandleIntercept(g) /\ UNCHANGED RestOfHandler
    \/ \E g \in HProcs : HandleFormat(g) /\ UNCHANGED RestOfHandler
    \/ \E g \in HProcs : HandleLock(g) /\ UNCHANGED RestOfHandler
    \/ \E g \in HProcs : HandleWrite(g) /\ UNCHANGED RestOfHandler
    \/ \E g \in HProcs : HandleUnlock(g) /\ UNCHANGED RestOfHandler

SpecShared == InitShared /\ [][NextShared]_vars

\* One Format call of one formatter on one Record.
InitFormat == FormatInit /\ AsyncInit /\ HandlerFixed /\ GlobalIdle /\ LoggerIdle /\ FieldsIdle

NextFormat == DoFormat /\ UNCHANGED RestOfFormat

SpecFormat == InitFormat /\ [][NextFormat]_vars

\* Package logger: Init, New and Close called one after the other.
InitLogger ==
    LoggerIdle /\ AsyncInit /\ HandlerFixed /\ GlobalIdle /\ FormatIdle /\ FieldsIdle

NextLogger ==
    \/ \E cfg \in Configs : LoggerInit(cfg) /\ UNCHANGED RestOfLogger
    \/ \E cfg \in Configs : LoggerNew(cfg) /\ UNCHANGED RestOfLogger
    \/ LoggerClose /\ UNCHANGED RestOfLogger

SpecLogger == InitLogger /\ [][NextLogger]_vars

\* One formatFields call on one map of fields under one configuration.
InitFields ==
    FieldsInit /\ AsyncInit /\ HandlerFixed /\ GlobalIdle /\ FormatIdle /\ LoggerIdle

NextFields == DoFormatFields /\ UNCHANGED RestOfFields

SpecFields == InitFields /\ [][NextFields]_vars

\* ------------------------------------------------- AsyncWriter: properties

\* The buffers the inner writer's Write has received.
InnerData == {e.data : e \in Range(InnerWrites)}

\* C1: when the Close call that closes an open writer returns, and no Write or
\* Sync call overlapped it and no Write found the queue full, the inner writer
\* has received each buffer of the N Writes exactly once and nothing else, and
\* its Close was invoked once, after all of them.
C1_CloseDeliversAll ==
    (~overlap /\ dropped = {}) =>
        /\ InnerCount("Close") > 0 =>
              /\ InnerData = accepted
              /\ Len(InnerWrites) = Cardinality(accepted)
        /\ closeDone =>
              /\ InnerCount("Close") = 1
              /\ inner[Len(inner)].call = "Close"

\* C1 witness: two goroutines wrote three buffers, then Close returned.
C1_Witness ==
    /\ closeDone
    /\ ~overlap
    /\ dropped = {}
    /\ Cardinality(accepted) = 3
    /\ \A p \in Procs : wseq[p] > 0

\* C2: when a Sync call returns, every buffer enqueued before the call started
\* has been passed to the inner writer's Write.
C2_SyncFlushesEarlierWrites ==
    [][\A p \in Procs :
          (pc[p] = "s_wait" /\ pc'[p] = "idle") => syncPre[p] \subseteq InnerData']_vars

\* The inner writer received the buffers of each goroutine in the order in
\* which that goroutine wrote them.
InnerInOrder ==
    \A i, j \in 1..Len(InnerWrites) :
        LET a == InnerWrites[i].data
            b == InnerWrites[j].data
        IN (i < j /\ ~a.nil /\ ~b.nil /\ a.bytes[1] = b.bytes[1])
              => a.bytes[2] < b.bytes[2]

\* C3: while the writer is open, whatever Write and Sync calls interleave, the
\* buffers of one goroutine reach the inner writer in the order it wrote them.
C3_DrainOrderIsEnqueueOrder == ~closed => InnerInOrder

\* C4: no Close call panics, the queue and the inner writer are closed at most
\* once (once when the closing call has returned), and every Close call that
\* did not make the Open -> Closing step returns nil.
C4_CloseIdempotent ==
    /\ panicked # "Close"
    /\ InnerCount("Close") <= 1
    /\ closeDone => (chClosed /\ InnerCount("Close") = 1)
    /\ \A r \in closeRets : ~r[1] => r[2] = "nil"

\* C4 witness: a second Close returned nil while the first was still closing,
\* and the first then returned the inner writer's error.
C4_Witness ==
    /\ closeDone
    /\ <<FALSE, "nil">> \in closeRets
    /\ <<TRUE, "err">> \in closeRets
    /\ \A p \in Procs : op[p] = "Close" /\ calls[p] = 1

\* C5: a Write that starts after a Close call has returned returns (0, nil) at
\* once, leaves the queue as it was and makes no call on the inner writer.
C5_WriteAfterClose ==
    [][\A p \in Procs :
          (closeReturned /\ pc[p] = "idle" /\ calls'[p] = calls[p] + 1
                         /\ op'[p] = "Write")
             => (pc'[p] = "idle" /\ ret'[p] = <<0, "nil">> /\ ch' = ch
                                  /\ inner' = inner)]_vars

\* C5 witness: the goroutine whose Close closed the writer has since written.
C5_Witness ==
    /\ closeDone
    /\ op[closer] = "Write"
    /\ pc[closer] = "idle"
    /\ ret[closer] = <<0, "nil">>

C7_HandleBelowThresholdIsSilent ==
    [][\A g \in HProcs :
          (hpc[g] # "idle" /\ hrec0[g].level < Level(hh[g])
                           /\ Len(htrace'[g]) > Len(htrace[g]))
             => htrace'[g][Len(htrace'[g])].ev = "intercept"]_vars

\* C7 (amended): a call below the threshold made through a Logger on the
\* Handler does not reach Handle: no Interceptor, Formatter or Writer is invoked.
C7_LoggerBelowThresholdIsSilent ==
    [][\A g \in HProcs, h \in Snapshots, r \in SlogRecords :
          (LoggerLog(g, h, r) /\ r.level < Level(h))
             => (hpc'[g] = "idle" /\ hout'[g] = "gated" /\ htrace'[g] = <<>>
                                  /\ wcalls' = wcalls)]_vars

\* C7 witness: the Logger refused a call on a Handler that formats and writes.
C7_Witness ==
    \E g \in HProcs :
        /\ hout[g] = "gated"
        /\ htrace[g] = <<>>
        /\ hcfg.formatter = "ok"
        /\ hcfg.writers # <<>>
        /\ Level(1) = LevelWarn

\* C8: once SetLevel(L) has been called on any snapshot, Enabled(l) is true on
\* every snapshot, older or newer than the call, exactly when l >= L.
C8_SnapshotsShareThreshold ==
    lastSet # <<>> =>
        \A h \in Snapshots, l \in Levels : Enabled(h, l) <=> l >= lastSet[1]

\* C8 witness: three snapshots, the level set twice, last to LevelError.
C8_Witness ==
    /\ Len(handlers) = 3
    /\ nset = 2
    /\ lastSet = <<LevelError>>
    /\ handlers[3].groups # <<>>
    /\ handlers[2].attrs # <<>>

\* C9: the Interceptors are invoked first, in registration order, each with
\* the record the one before returned; the Formatter and the Writers come only
\* after all of them; and once one returns nil nothing more is invoked and
\* Handle returns nil.
C9_InterceptorChain ==
    \A g \in HProcs :
        LET t == htrace[g] IN
        \A k \in 1..Len(t) :
            IF t[k].ev = "intercept"
            THEN /\ t[k].i = k
                 /\ t[k].arg = IF k = 1 THEN hrec0[g]
                               ELSE ApplyInterceptor(hcfg.interceptors[k - 1], t[k - 1].arg)
                 /\ ApplyInterceptor(hcfg.interceptors[k], t[k].arg).nil =>
                       (k = Len(t) /\ hpc[g] = "idle" /\ hout[g] = "nil")
            ELSE k > Len(hcfg.interceptors)

\* C9 witness: the first Interceptor tagged the record, the second dropped it.
C9_Witness ==
    \E g \in HProcs :
        /\ hcfg.interceptors = <<"tag", "dropSecret">>
        /\ hcfg.formatter = "ok"
        /\ Len(htrace[g]) = 2
        /\ htrace[g][2].arg.attrs = <<"k", "trace_id">>
        /\ hpc[g] = "idle"
        /\ hout[g] = "nil"

\* C10: Format is called at most once in a Handle call; when it returns an
\* error, Handle returns that error and no Writer's Write is invoked.
C10_FormatOnceErrorPropagates ==
    \A g \in HProcs :
        LET t == htrace[g] IN
        /\ Len(SelectSeq(t, LAMBDA e : e.ev = "format")) <= 1
        /\ \A k \in 1..Len(t) :
              (t[k].ev = "format" /\ Format(hcfg.formatter, t[k].arg).err # "nil") =>
                  /\ k = Len(t)
                  /\ hpc[g] = "idle"
                  /\ hout[g] = Format(hcfg.formatter, t[k].arg).err
                  /\ \A j \in 1..Len(t) : t[j].ev # "write"

\* C10 witness: a record passed the Interceptors and the Formatter failed.
C10_Witness ==
    \E g \in HProcs :
        /\ hcfg.formatter = "fail"
        /\ hcfg.interceptors # <<>>
        /\ hcfg.writers # <<>>
        /\ htrace[g] # <<>>
        /\ htrace[g][Len(htrace[g])].ev = "format"
        /\ hout[g] = "err"

\* The calls of the given kind among those recorded for a Handle call.
EventsOf(t, kind) == SelectSeq(t, LAMBDA e : e.ev = kind)

\* C11: once Format has succeeded, Handle calls Write with the formatted bytes
\* once on every Writer, in registration order, whatever the Writes return, and
\* returns nil; every Write on the MultiWriter reaches each of its inner writers
\* once, in order, with the same bytes, and returns (len(p), nil).
C11_BestEffortFanOut ==
    /\ \A g \in HProcs :
          LET ws == EventsOf(htrace[g], "write")
              fs == EventsOf(htrace[g], "format") IN
          /\ \A k \in 1..Len(ws) :
                /\ ws[k].i = k
                /\ Len(fs) = 1
                /\ ws[k].arg = Format(hcfg.formatter, fs[1].arg).data
          /\ (hpc[g] = "idle" /\ Len(fs) = 1
                /\ Format(hcfg.formatter, fs[1].arg).err = "nil") =>
                (Len(ws) = Len(hcfg.writers) /\ hout[g] = "nil")
    /\ \A k \in 1..Len(wcalls) :
          hcfg.writers[wcalls[k].w] = "multi" =>
             /\ Len(wcalls[k].inner) = Len(MultiInner)
             /\ \A j \in 1..Len(MultiInner) :
                   wcalls[k].inner[j] = [w |-> j, data |-> wcalls[k].data]
             /\ wcalls[k].n = Len(wcalls[k].data)
             /\ wcalls[k].err = "nil"

\* C11 witness: a Handle call has returned nil after a Writer failed, and the
\* Writers after it, the MultiWriter among them, were written to.
C11_Witness ==
    \E g \in HProcs :
        /\ hpc[g] = "idle"
        /\ hout[g] = "nil"
        /\ Len(EventsOf(htrace[g], "write")) = 3
        /\ hcfg.writers[1] = "err"
        /\ \E k \in 1..Len(wcalls) : wcalls[k].by = g /\ Len(wcalls[k].inner) = Len(MultiInner)

\* ----------------------------------------------- global logger: properties

\* The error of the first failing call among the results rs, "nil" when none.
FirstFailure(rs) ==
    IF \A i \in 1..Len(rs) : rs[i] = "nil" THEN "nil"
    ELSE rs[CHOOSE i \in 1..Len(rs) :
                rs[i] # "nil" /\ \A j \in 1..(i - 1) : rs[j] = "nil"]

\* The calls cs are one call of kind on each of the writers ws, in order.
OneCallEach(cs, ws, kind) ==
    /\ Len(cs) = Len(ws)
    /\ \A i \in 1..Len(ws) : cs[i].w = i /\ cs[i].op = kind

\* C12: every Close or Sync of a Handler, and of a MultiWriter among its
\* Writers, calls the operation once on every writer, in order, whatever the
\* earlier ones returned, and returns the error of the first that failed.
C12_CloseSyncFirstError ==
    \A k \in 1..Len(gcalls) :
        LET c == gcalls[k]
            ws == gwriters[c.h] IN
        /\ OneCallEach(c.calls, ws, c.op)
        /\ c.err = FirstFailure([i \in 1..Len(ws) |-> c.calls[i].err])
        /\ \A i \in 1..Len(ws) :
              IF ws[i] = "multi"
              THEN /\ OneCallEach(c.calls[i].inner, MultiInner, c.op)
                   /\ \A j \in 1..Len(MultiInner) :
                         c.calls[i].inner[j].err = PlainResult(MultiInner[j])
                   /\ c.calls[i].err =
                         FirstFailure([j \in 1..Len(MultiInner) |->
                                          PlainResult(MultiInner[j])])
              ELSE c.calls[i].err = PlainResult(ws[i])

\* C12 witness: a Handler with two failing Writers and a MultiWriter with two
\* failing inner writers has been synced and then closed.
C12_Witness ==
    /\ Len(gcalls) = 2
    /\ gcalls[1].op = "Sync"
    /\ gcalls[2].op = "Close"
    /\ gcalls[1].h = gcalls[2].h
    /\ gwriters[gcalls[2].h] = <<"ok", "err", "multi", "err2">>
    /\ gcalls[2].err = "err"
    /\ gcalls[2].calls[3].err = "err2"

\* ------------------------------------------------- snapshots: properties

\* The attrs and the groups the calls on the derivation path of snapshot h
\* have bound, from NewHandler on.
RECURSIVE PathAttrs(_)
PathAttrs(h) ==
    IF hderiv[h].parent = 0 THEN <<>>
    ELSE PathAttrs(hderiv[h].parent) \o
         (IF hderiv[h].op = "WithAttrs" THEN hderiv[h].arg ELSE <<>>)

RECURSIVE PathGroups(_)
PathGroups(h) ==
    IF hderiv[h].parent = 0 THEN <<>>
    ELSE PathGroups(hderiv[h].parent) \o
         (IF hderiv[h].op = "WithGroup" THEN hderiv[h].arg ELSE <<>>)

\* C13: whatever WithAttrs and WithGroup calls have been made, each snapshot
\* holds the attrs and groups of its own derivation path and no others, so a
\* record handled through it carries none that another branch added.
C13_ReceiverUnchanged ==
    \A h \in Snapshots :
        /\ handlers[h].attrs = PathAttrs(h)
        /\ handlers[h].groups = PathGroups(h)
        /\ \A r \in SlogRecords :
              /\ toRecord(h, r).attrs = PathAttrs(h) \o r.attrs
              /\ toRecord(h, r).groups = PathGroups(h)

\* C13 witness: a snapshot has two children, one by WithAttrs and one by
\* WithGroup, and one of them a child of its own.
C13_Witness ==
    \E x, y, z \in Snapshots :
        /\ hderiv[x].parent = 1 /\ hderiv[x].op = "WithAttrs"
        /\ hderiv[y].parent = 1 /\ hderiv[y].op = "WithGroup"
        /\ hderiv[z].parent = x /\ hderiv[z].op = "WithAttrs"

\* C14: a record handled by h.WithAttrs(a).WithAttrs(b) gets the same
\* attributes, in the same order, and the same formatted output as the same
\* record handled by h.WithAttrs(a ++ b).
C14_WithAttrsConcat ==
    \A x, y, z \in Snapshots :
        (/\ hderiv[x].op = "WithAttrs"
         /\ hderiv[y].op = "WithAttrs" /\ hderiv[y].parent = x
         /\ hderiv[z].op = "WithAttrs" /\ hderiv[z].parent = hderiv[x].parent
         /\ hderiv[z].arg = hderiv[x].arg \o hderiv[y].arg) =>
            \A r \in SlogRecords :
               /\ toRecord(y, r).attrs = toRecord(z, r).attrs
               /\ Format("ok", toRecord(y, r)) = Format("ok", toRecord(z, r))

\* C14 witness: h.WithAttrs(a).WithAttrs(b) and h.WithAttrs(a ++ b) both exist.
C14_Witness ==
    \E x, y, z \in Snapshots :
        /\ hderiv[x].op = "WithAttrs" /\ hderiv[x].arg = <<"a">>
        /\ hderiv[y].op = "WithAttrs" /\ hderiv[y].parent = x
        /\ hderiv[y].arg = <<"b">>
        /\ hderiv[z].op = "WithAttrs" /\ hderiv[z].parent = hderiv[x].parent
        /\ hderiv[z].arg = <<"a", "b">>

\* TextFormatter.writeAttrs: the qualified key written for each attr whose key
\* is not empty, a key being qualified by every name of groups.
writeAttrs(attrs, groups) ==
    LET named == SelectSeq(attrs, LAMBDA k : k # "") IN
    [i \in 1..Len(named) |-> groups \o <<named[i]>>]

\* The attrs bound on the derivation path of snapshot h, each qualified by the
\* groups that were open when it was bound.
RECURSIVE PathQualified(_)
PathQualified(h) ==
    IF hderiv[h].parent = 0 THEN <<>>
    ELSE PathQualified(hderiv[h].parent) \o
         (IF hderiv[h].op = "WithAttrs"
          THEN [i \in 1..Len(hderiv[h].arg) |->
                   PathGroups(hderiv[h].parent) \o <<hderiv[h].arg[i]>>]
          ELSE <<>>)

\* C15: in the rendered fields of a record logged through a snapshot, an attr
\* bound with WithAttrs is qualified by the groups opened before it was bound,
\* and the record's own attrs by all the groups of the snapshot.
C15_GroupsQualifyLaterAttrsOnly ==
    \A h \in Snapshots, r \in SlogRecords :
        writeAttrs(toRecord(h, r).attrs, toRecord(h, r).groups) =
            PathQualified(h) \o
            [i \in 1..Len(r.attrs) |-> PathGroups(h) \o <<r.attrs[i]>>]

\* The number of Close calls made on Handler h.
CloseCount(h) ==
    Len(SelectSeq(gcalls, LAMBDA c : c.h = h /\ c.op = "Close"))

\* C16: whatever the interleaving of Init and Close calls, a Handler that has
\* been the global one is closed at most once, and has been closed once
\* globalMu is released with another Handler, or none, in its place; and a
\* Close that finds no global Handler calls no Writer and returns nil.
C16_GlobalHandlerClosedOnce ==
    /\ [](\A h \in ginstalled :
             /\ CloseCount(h) <= 1
             /\ (h # globalHandler /\ gmu = 0) => CloseCount(h) = 1)
    /\ [][\A p \in GProcs :
             /\ (gpc[p] = "close_call" /\ gpc'[p] # "close_call"
                                       /\ globalHandler = 0) =>
                    (gcalls' = gcalls /\ gerr'[p] = "nil")
             /\ (gpc[p] = "close_unlock" /\ gpc'[p] = "idle") =>
                    gret'[p] = [op |-> "Close", err |-> gerr[p]]]_vars

\* C16 witness: one Handler was replaced by a second Init, the second closed
\* by Close, and both calls have returned.
C16_Witness ==
    /\ Len(handlers) = 2
    /\ ginstalled = {1, 2}
    /\ globalHandler = 0
    /\ gmu = 0
    /\ CloseCount(1) = 1
    /\ CloseCount(2) = 1
    /\ \A p \in GProcs : gpc[p] = "idle"

\* C18: a SetLevel(s) call made when Init has returned and its Handler is the
\* global one leaves that Handler enabled for exactly the levels
\* l >= ParseLevel(s), whatever options Init was given.
C18_SetLevelReachesGlobalHandler ==
    [][\A p \in GProcs, s \in LevelStrings :
          (/\ GlobalSetLevel(p, s)
           /\ globalHandler # 0
           /\ \A q \in GProcs : gpc[q] = "idle") =>
              \A l \in Levels :
                 Enabled(globalHandler, l)' <=> l >= ParseLevel(s)]_vars

\* Goroutine g has made the first Write of its fan-out and not yet the last.
InFanOut(g) == hpc[g] = "write" /\ 1 < hidx[g] /\ hidx[g] <= Len(hcfg.writers)

\* C17: no two Handle calls, on one Handler or on Handlers derived from one
\* root, are inside their Write calls to the shared Writers at the same time.
C17_FanOutsExclusive ==
    \A g1, g2 \in HProcs : (g1 # g2) => ~(InFanOut(g1) /\ InFanOut(g2))

\* C17, for one Handler only: two Handle calls on the same Handler are never
\* inside their Write calls at the same time.
SameHandlerFanOutsExclusive ==
    \A g1, g2 \in HProcs :
        (g1 # g2 /\ hh[g1] = hh[g2]) => ~(InFanOut(g1) /\ InFanOut(g2))

\* -------------------------------------------------- formatters: properties

\* The keys of the pieces of out from the i-th on that are at the top level of
\* the object, depth being the number of objects open before the i-th piece.
RECURSIVE TopKeysFrom(_, _, _)
TopKeysFrom(out, i, depth) ==
    IF i > Len(out) THEN <<>>
    ELSE IF out[i] = Punct("{") THEN TopKeysFrom(out, i + 1, depth + 1)
    ELSE IF out[i] = Punct("}") THEN TopKeysFrom(out, i + 1, depth - 1)
    ELSE IF out[i].t = "key" /\ depth = 1
         THEN <<out[i].s>> \o TopKeysFrom(out, i + 1, depth)
    ELSE TopKeysFrom(out, i + 1, depth)

TopKeys(out) == TopKeysFrom(out, 1, 0)

\* C19: the object the JSON and ColorJSON formatters emit has time, level and
\* msg as its first three keys and, when the Record has a Source, source as
\* its last key.
C19_JSONKeyOrder ==
    (fpc = "done" /\ fkind \in {"JSON", "ColorJSON"}) =>
        LET ks == TopKeys(fout) IN
        /\ Len(ks) >= 3
        /\ SubSeq(ks, 1, 3) = <<<<"time">>, <<"level">>, <<"msg">>>>
        /\ frec.source => ks[Len(ks)] = <<"source">>

\* C20: the bytes every formatter returns end with a newline and hold no other
\* newline.
C20_OneLinePerRecord ==
    fpc = "done" =>
        /\ fout[Len(fout)] = Punct("\n")
        /\ \A i \in 1..(Len(fout) - 1) :
              \A j \in 1..Len(fout[i].s) : fout[i].s[j] # "\n"

\* The bytes below 0x20 among the characters used.
ControlChars == {"\n", "\r", "\t", SOH}

\* C21: the Text formatter writes a string value unquoted only when it is not
\* empty and holds no whitespace, no double quote and no control byte; else it
\* writes it in double quotes, escaped as EscapeJSON escapes, so that no
\* control byte appears in a rendered value.
C21_TextValueQuoting ==
    (/\ fpc = "done" /\ fkind = "Text" /\ Keyed(frec.attrs) # <<>>
     /\ Keyed(frec.attrs)[1].kind = "string") =>
        LET v == Keyed(frec.attrs)[1].value
            piece == fout[Len(fout) - 1] IN
        /\ piece.t = "raw" =>
              /\ v # <<>>
              /\ \A i \in 1..Len(v) : v[i] \notin ControlChars \cup {" ", "\""}
        /\ piece.t = "str" => piece.s = EscapeJSON(v)
        /\ \A j \in 1..Len(piece.s) : piece.s[j] \notin ControlChars

\* The number of pieces of out that are the "=" of a field.
Fields(out) == Cardinality({i \in 1..Len(out) : out[i] = Punct("=")})

\* C22: the ColorText formatter renders a string attribute whose value is the
\* JSON text of an object or array with leaves as exactly one key=value field
\* per scalar leaf, keyed by the path of the leaf, integral numbers without a
\* decimal point, and with no field for the unflattened key itself.
C22_FlattenOneFieldPerLeaf ==
    (/\ fpc = "done" /\ fkind = "ColorText" /\ Keyed(frec.attrs) # <<>>
     /\ Keyed(frec.attrs)[1].value \in JSONValues
     /\ Unmarshal(Keyed(frec.attrs)[1].value).ok
     /\ flattenValue(Unmarshal(Keyed(frec.attrs)[1].value).v, <<>>, FALSE) # <<>>) =>
        LET a == Keyed(frec.attrs)[1]
            key == GroupPrefix(frec.groups) \o a.key
            leaves == flattenValue(Unmarshal(a.value).v, key, FALSE) IN
        /\ Fields(fout) = Len(leaves)
        /\ \A i \in 1..Len(leaves) : \E j \in 1..(Len(fout) - 2) :
              /\ fout[j] = leaves[i][1]
              /\ fout[j + 1] = Punct("=")
              /\ fout[j + 2] = leaves[i][3]
        /\ ~\E j \in 1..Len(fout) : fout[j] = Raw(key)
        /\ a.value = JSONObject =>
              \E j \in 1..(Len(fout) - 2) :
                  /\ fout[j] = Raw(key \o <<".", "n">>)
                  /\ fout[j + 2] = Raw(<<"3", "0">>)
        /\ a.value = JSONArray =>
              \E j \in 1..(Len(fout) - 2) :
                  /\ fout[j] = Raw(key \o <<"[", "1", "]">>)
                  /\ fout[j + 2] = Raw(<<"3">>)

\* A Config whose Format is not empty and none of json, text, color, colored,
\* or whose Level is not empty and, in upper case, none of the five names.
InvalidConfig(c) ==
    /\ ~c.nil
    /\ \/ c.Format \notin {"", "json", "text", "color", "colored"}
       \/ ToUpper(c.Level) \notin {"", "DEBUG", "INFO", "WARN", "WARNING", "ERROR"}

C24_WriteNeverSendsOnClosed ==
    /\ panicked # "Write"
    /\ \A p \in Procs : (op[p] = "Write" /\ pc[p] = "idle") =>
          ret[p] \in {<<0, "nil">>, <<Len(wdata[p].bytes), "nil">>}

\* C25: under fair scheduling a Sync called on an open AsyncWriter returns,
\* unless the AsyncWriter is closed or panics in the meantime.
C25_SyncReturns ==
    \A p \in Procs :
        (pc[p] = "s_send" /\ ~closed) ~> (pc[p] = "idle" \/ closed \/ panicked # "none")

\* C26: the inner writer's Write is never called after AsyncWriter.Close has
\* called the inner writer's Close.
C26_NoInnerWriteAfterClose ==
    \A i, j \in 1..Len(inner) :
        (i < j /\ inner[i].call = "Close") => inner[j].call # "Write"

\* C27: once a set of concurrent Init calls has completed (no other call of
\* the package was made), the Handler behind slog.Default() is the global
\* Handler, and it has not been closed.
C27_DefaultIsGlobalHandler ==
    (/\ gcount > 0
     /\ gcount = Len(handlers)
     /\ \A p \in GProcs : gpc[p] = "idle") =>
        /\ slogDefault = globalHandler
        /\ CloseCount(slogDefault) = 0

\* The pieces of out without its final newline form one JSON object: a key
\* follows every opening brace that is not closed at once and every comma, a
\* value follows every key, a comma or a closing brace follows every value,
\* and the braces match.
RECURSIVE Depth(_, _)
Depth(out, n) ==
    IF n = 0 THEN 0
    ELSE Depth(out, n - 1) + (IF out[n] = Punct("{") THEN 1
                              ELSE IF out[n] = Punct("}") THEN -1 ELSE 0)

ValidJSONObject(out) ==
    LET n == Len(out) - 1 IN
    /\ n >= 2
    /\ out[1] = Punct("{")
    /\ out[n] = Punct("}")
    /\ Depth(out, n) = 0
    /\ \A i \in 1..(n - 1) : Depth(out, i) > 0
    /\ \A i \in 1..(n - 1) :
          /\ out[i] = Punct("{") => (out[i + 1].t = "key" \/ out[i + 1] = Punct("}"))
          /\ out[i] = Punct(",") => out[i + 1].t = "key"
          /\ out[i].t = "key" => (out[i + 1].t = "str" \/ out[i + 1] = Punct("{"))
          /\ (out[i].t = "str" \/ out[i] = Punct("}")) =>
                (out[i + 1] = Punct(",") \/ out[i + 1] = Punct("}"))

\* C28: for every Record, with or without groups and attributes, the JSON and
\* the ColorJSON formatter emit one valid JSON object, each group a nested
\* object, the members separated by one comma and no comma directly after an
\* opening brace.
C28_ValidJSONWithGroups ==
    (fpc = "done" /\ fkind \in {"JSON", "ColorJSON"}) =>
        /\ ValidJSONObject(fout)
        /\ \A i \in 1..Len(frec.groups) : \E j \in 1..(Len(fout) - 1) :
              fout[j] = Key(frec.groups[i]) /\ fout[j + 1] = Punct("{")

\* The characters of a line: those of its pieces, a quoted piece in its quotes.
Line(out) ==
    Flatten([i \in 1..Len(out) |->
                IF out[i].t = "str" THEN <<"\"">> \o out[i].s \o <<"\"">> ELSE out[i].s])

\* The members of group attribute a as attributes of their own, keyed g.k.
Expanded(a) ==
    [i \in 1..Len(a.members) |->
        StringAttr(a.key \o <<".">> \o a.members[i].key, a.members[i].value)]

\* C29: the Text formatter renders an attribute whose value is a group g with
\* members k1..kn as the fields P.g.k1=v1 ... P.g.kn=vn, P the dotted group
\* prefix of the handler: the line is the one of the Record that holds the
\* members as attributes g.k1 .. g.kn, with no field for the bare key g.
C29_TextGroupValueDotted ==
    (/\ fpc = "done" /\ fkind = "Text" /\ Keyed(frec.attrs) # <<>>
     /\ Keyed(frec.attrs)[1].kind = "group"
     /\ Keyed(frec.attrs)[1].members # <<>>) =>
        Line(fout) = Line(TextFormat([frec EXCEPT !.attrs = Expanded(Keyed(frec.attrs)[1])]))

\* Where key k belongs: 1 among the priority keys, 3 among the trailing keys,
\* 2 otherwise.
FieldClass(k) ==
    IF k \in Range(cpriority) THEN 1 ELSE IF k \in Range(ctrailing) THEN 3 ELSE 2

\* The first position of k in the configured list q.
FirstIndex(q, k) == CHOOSE i \in 1..Len(q) : q[i] = k /\ \A j \in 1..(i - 1) : q[j] # k

\* C30: formatFields emits every field exactly once: the priority keys present
\* in configured order, the remaining keys in ascending order, the trailing
\* keys present in configured order, for every map and every configuration.
C30_EveryFieldOnceInOrder ==
    cpc = "done" =>
        /\ \A k \in DOMAIN cfields :
              Cardinality({i \in 1..Len(cout) : cout[i].key = k}) = 1
        /\ \A i \in 1..Len(cout) :
              cout[i].key \in DOMAIN cfields /\ cout[i].value = cfields[cout[i].key]
        /\ \A i, j \in 1..Len(cout) : i < j =>
              LET a == cout[i].key
                  b == cout[j].key IN
              /\ FieldClass(a) <= FieldClass(b)
              /\ (FieldClass(a) = 1 /\ FieldClass(b) = 1) =>
                    FirstIndex(cpriority, a) < FirstIndex(cpriority, b)
              /\ (FieldClass(a) = 2 /\ FieldClass(b) = 2) => Less(a, b)
              /\ (FieldClass(a) = 3 /\ FieldClass(b) = 3) =>
                    FirstIndex(ctrailing, a) < FirstIndex(ctrailing, b)

====
